---- MODULE Spec2Model ----
(***************************************************************************)
(* Band planner (/rebalance/plan), advanced-order bin selection            *)
(* (/orders/advanced/plan) and the analytics backtest simulator            *)
(* (runBacktest) of the DLMM LP Copilot, as state machines.                *)
(*                                                                         *)
(* Number representation.  The program computes in IEEE doubles; TLC has   *)
(* 32-bit integers only, so every quantity is held as an exact fixed-point *)
(* integer:                                                                *)
(*   - mid prices in units of 1e-4 (1.2345 is 12345);                      *)
(*   - band prices handed to priceToBinIndex in units of 1e-8, so that     *)
(*     midPrice * (1 -/+ bandBps/10000) is exact;                          *)
(*   - candle prices in whole ticks, band edges in ticks/10000;            *)
(*   - equity in units of 1e-9 (1.0 is 1000000000).                        *)
(* Values a double can take and an integer cannot (NaN, -Infinity) are     *)
(* tagged records, see Fin / NaN / NegInf.                                 *)
(***************************************************************************)
EXTENDS Integers, Sequences, FiniteSets, TLC

VARIABLES
    gateway,      \* which implementation answers the gateway calls
    planPc,       \* /rebalance/plan handler: position between awaits
    planReq,      \* /rebalance/plan request body
    planLoc,      \* /rebalance/plan handler locals
    planCalls,    \* gateway calls made by the /rebalance/plan request, in order
    planReplies,  \* responses sent for the /rebalance/plan request, in order
    advPc,        \* /orders/advanced/plan handler: position between awaits
    advReq,       \* /orders/advanced/plan request body
    advLoc,       \* /orders/advanced/plan handler locals
    advCalls,     \* gateway calls made by the /orders/advanced/plan request
    advReplies,   \* responses sent for the /orders/advanced/plan request
    rows,         \* backtestRows: the stored candle list, input of the backtest
    run,          \* backtest invocations: run id -> arguments and locals
    csv,          \* CSV upload: the parse result, the callback's locals, the toast
    links,        \* botLinkStore: pending codes, bindings, the clock
    bot,          \* Telegram bot: the command in progress and its replies
    liq,          \* gateway addLiquidity/removeLiquidity: the calls served
    svc,          \* wallet cooldown of the execute/arm/disarm routes, requests
    rt            \* retry(fn, maxAttempts, baseDelay): one invocation

gwVars   == <<gateway>>
planVars == <<planPc, planReq, planLoc, planCalls, planReplies>>
advVars  == <<advPc, advReq, advLoc, advCalls, advReplies>>
btVars   == <<rows, run>>
csvVars  == <<csv>>
linkVars == <<links>>
botVars  == <<bot>>
svcVars  == <<liq, svc, rt>>
vars     == <<gateway, planPc, planReq, planLoc, planCalls, planReplies,
              advPc, advReq, advLoc, advCalls, advReplies, rows, run,
              csv, links, bot, liq, svc, rt>>

(***************************************************************************)
(* Bounds of the model.                                                    *)
(***************************************************************************)
MaxOpaqueBin  == 3   \* an arbitrary gateway answers bins in -3..3
MaxCandles    == 3   \* longest candle list of a single backtest
MaxRunCandles == 2   \* longest candle list of two interleaved backtests
MaxLiqCalls   == 3   \* liquidity calls served by one gateway client
MaxRetryAttempts == 3 \* largest maxAttempts handed to retry
MaxSvcRequests == 3  \* execute/arm/disarm requests received by the service

(***************************************************************************)
(* Program constants.                                                      *)
(***************************************************************************)
BpsDenominator == 10000
BIN_SCALING    == 100
MockMidPrice   == 12345          \* 1.2345 in units of 1e-4
PriceUnit      == 100000000      \* 1.0 in units of 1e-8

Min(a, b) == IF a <= b THEN a ELSE b
Max(a, b) == IF a >= b THEN a ELSE b

\* Math.round on a non-negative quotient num/den: floor(num/den + 1/2).
RoundDiv(num, den) == (2 * num + den) \div (2 * den)

(***************************************************************************)
(* The price & liquidity gateway (packages/core dlmmClient).               *)
(***************************************************************************)
DomainErrors == {"InvalidInput", "NotFound", "RateLimited", "RpcError", "SdkError"}

Ok(v)        == [ok |-> TRUE, value |-> v, error |-> "", detail |-> ""]
Fail(e, d)   == [ok |-> FALSE, value |-> 0, error |-> e, detail |-> d]

\* mapValidationError: a schema failure is InvalidInput with the issue list.
MapValidationError == Fail("InvalidInput", "issues")

\* wrap + mapError: what a throwing SDK call is turned into.  The detail is
\* the thrown message, which may be empty.
WrapFailures == {Fail(e, d) : e \in {"NotFound", "RateLimited", "RpcError", "SdkError"},
                              d \in {"", "msg"}}

\* Every value of the gateway's result type for an integer payload in vs.
OpaqueResults(vs) ==
    {Ok(v) : v \in vs} \cup {Fail(e, d) : e \in DomainErrors, d \in {"", "msg"}}

MidPrices == {1, MockMidPrice, 20000}

\* Math.round(targetPrice * BIN_SCALING), targetPrice in units of 1e-8.
BinOfPrice(price8) == RoundDiv(price8, PriceUnit \div BIN_SCALING)

\* Variant of priceToBinIndex whose schema lets a price of 0 through.
PriceToBinIndexNonNegative(gw, pool, price8) ==
    IF gw = "opaque" THEN OpaqueResults((-MaxOpaqueBin)..MaxOpaqueBin)
    ELSE IF pool = "" \/ price8 < 0 THEN {MapValidationError}
    ELSE IF gw = "mock" THEN {Ok(BinOfPrice(price8))}
    ELSE {Ok(BinOfPrice(price8))} \cup WrapFailures

\* priceToBinIndex(pool, targetPrice): the results the call can resolve to.
PriceToBinIndex(gw, pool, price8) ==
    IF gw = "opaque" THEN OpaqueResults((-MaxOpaqueBin)..MaxOpaqueBin)
    ELSE IF pool = "" \/ price8 <= 0 THEN {MapValidationError}
    ELSE IF gw = "mock" THEN {Ok(BinOfPrice(price8))}
    ELSE {Ok(BinOfPrice(price8))} \cup WrapFailures

\* currentMidPrice(pool): the results the call can resolve to (1e-4 units).
CurrentMidPrice(gw, pool) ==
    IF gw = "opaque" THEN OpaqueResults(MidPrices)
    ELSE IF pool = "" THEN {MapValidationError}
    ELSE IF gw = "mock" THEN {Ok(MockMidPrice)}
    ELSE {Ok(p) : p \in MidPrices} \cup WrapFailures

(***************************************************************************)
(* Problem responses (utils/problem, mapResult, buildProblem).             *)
(***************************************************************************)
StatusByError(e) ==
    CASE e = "InvalidInput" -> 400
      [] e = "NotFound"     -> 404
      [] e = "RateLimited"  -> 429
      [] e = "RpcError"     -> 502
      [] e = "SdkError"     -> 502
      [] OTHER              -> 500

\* sendProblem: the body of an application/problem+json response; detail and
\* code are present only when truthy.
SendProblem(title, status, detail, code) ==
    [kind |-> "problem", title |-> title, status |-> status,
     hasDetail |-> detail # "", detail |-> detail,
     hasCode |-> code # "", code |-> code]

\* Variant of mapResult that wraps every failure in one generic code.
MapResultProblemWrongCode(result, title) ==
    SendProblem(title, StatusByError(result.error), result.detail, "UpstreamUnavailable")

\* mapResult on a failed result: the problem it sends.
MapResultProblem(result, title) ==
    SendProblem(title, StatusByError(result.error), result.detail, result.error)

BuildProblem(status, title, detail, code) == SendProblem(title, status, detail, code)

(***************************************************************************)
(* POST /rebalance/plan.                                                   *)
(***************************************************************************)
Pools == {"", "MOCK_POOL_SOL_USDC"}

PlanRequests ==
    [walletOk : BOOLEAN, pool : Pools, bandBps : {0, 1, 100, 5000, 9999, 10000, 10001}]

\* rebalanceBodySchema.safeParse(request.body).success
RebalanceBodyValid(body) ==
    /\ body.walletOk
    /\ body.pool # ""
    /\ body.bandBps >= 1
    /\ body.bandBps <= 10000

\* Variant of lowerPrice with the sign of the ratio slipped.
LowerPriceSignSlip(midPrice, bandBps) == midPrice * (BpsDenominator + bandBps)

\* lowerPrice and upperPrice of computeTargetBins, in units of 1e-8.
LowerPrice(midPrice, bandBps) == midPrice * (BpsDenominator - bandBps)
UpperPrice(midPrice, bandBps) == midPrice * (BpsDenominator + bandBps)
MidPrice8(midPrice)           == midPrice * BpsDenominator

\* Variant of the return value without the Math.min / Math.max guard.
TargetBinsUnordered(lowerBin, upperBin, currentBin) ==
    [binLower |-> lowerBin, binUpper |-> upperBin, currentBin |-> currentBin]

\* The value computeTargetBins returns once the three lookups succeeded.
TargetBins(lowerBin, upperBin, currentBin) ==
    [binLower   |-> Min(lowerBin, upperBin),
     binUpper   |-> Max(lowerBin, upperBin),
     currentBin |-> currentBin]

\* Variant of inBand with strict comparisons.
InBandExclusive(band) ==
    band.currentBin > band.binLower /\ band.currentBin < band.binUpper

\* inBand of the /rebalance/plan handler.
InBand(band) ==
    band.currentBin >= band.binLower /\ band.currentBin <= band.binUpper

\* The 200 body of /rebalance/plan.
PlanResponse(band, midPrice) ==
    [kind    |-> "ok",
     inBand  |-> InBand(band),
     target  |-> [binLower |-> band.binLower, binUpper |-> band.binUpper],
     current |-> [midPrice |-> midPrice, binIndex |-> band.currentBin]]

Call(fn, arg, result) == [fn |-> fn, arg |-> arg, result |-> result]

NoPlanLoc == [midPrice |-> 0, currentBin |-> 0, lowerBin |-> 0, upperBin |-> 0]

PlanIdle ==
    /\ planPc = "off"
    /\ planReq = [walletOk |-> FALSE, pool |-> "", bandBps |-> 0]
    /\ planLoc = NoPlanLoc
    /\ planCalls = <<>>
    /\ planReplies = <<>>

\* Body validation, up to the first await.
PlanReceive ==
    /\ planPc = "received"
    /\ IF RebalanceBodyValid(planReq)
       THEN /\ planPc' = "midPrice"
            /\ planReplies' = planReplies
       ELSE /\ planPc' = "done"
            /\ planReplies' = Append(planReplies,
                   BuildProblem(400, "Invalid Request", "zod", "InvalidInput"))
    /\ UNCHANGED <<planReq, planLoc, planCalls>>
    /\ UNCHANGED <<gwVars, advVars, btVars, csvVars, linkVars, botVars, svcVars>>

\* await currentMidPrice(pool); mapResult.
PlanMidPrice ==
    /\ planPc = "midPrice"
    /\ \E res \in CurrentMidPrice(gateway, planReq.pool) :
          /\ planCalls' = Append(planCalls, Call("currentMidPrice", 0, res))
          /\ IF res.ok
             THEN /\ planLoc' = [planLoc EXCEPT !.midPrice = res.value]
                  /\ planPc' = "currentBin"
                  /\ planReplies' = planReplies
             ELSE /\ planLoc' = planLoc
                  /\ planPc' = "done"
                  /\ planReplies' = Append(planReplies,
                         MapResultProblem(res, "Failed to fetch mid price"))
    /\ UNCHANGED planReq
    /\ UNCHANGED <<gwVars, advVars, btVars, csvVars, linkVars, botVars, svcVars>>

\* computeTargetBins: await priceToBinIndex(pool, midPrice); mapResult.
PlanCurrentBin ==
    /\ planPc = "currentBin"
    /\ LET price == MidPrice8(planLoc.midPrice) IN
       \E res \in PriceToBinIndex(gateway, planReq.pool, price) :
          /\ planCalls' = Append(planCalls, Call("priceToBinIndex", price, res))
          /\ IF res.ok
             THEN /\ planLoc' = [planLoc EXCEPT !.currentBin = res.value]
                  /\ planPc' = "lowerBin"
                  /\ planReplies' = planReplies
             ELSE /\ planLoc' = planLoc
                  /\ planPc' = "done"
                  /\ planReplies' = Append(planReplies,
                         MapResultProblem(res, "Failed to determine active bin"))
    /\ UNCHANGED planReq
    /\ UNCHANGED <<gwVars, advVars, btVars, csvVars, linkVars, botVars, svcVars>>

\* Variant of the lower-band lookup that asks again after a failure.
PlanLowerBinRetry ==
    /\ planPc = "lowerBin"
    /\ LET price == LowerPrice(planLoc.midPrice, planReq.bandBps) IN
       \E res \in PriceToBinIndex(gateway, planReq.pool, price) :
          /\ planCalls' = Append(planCalls, Call("priceToBinIndex", price, res))
          /\ planLoc' = IF res.ok THEN [planLoc EXCEPT !.lowerBin = res.value] ELSE planLoc
          /\ planPc' = IF res.ok THEN "upperBin" ELSE "lowerBin"
          /\ planReplies' = planReplies
    /\ UNCHANGED planReq
    /\ UNCHANGED <<gwVars, advVars, btVars, csvVars, linkVars, botVars, svcVars>>

\* computeTargetBins: await priceToBinIndex(pool, lowerPrice); mapResult.
PlanLowerBin ==
    /\ planPc = "lowerBin"
    /\ LET price == LowerPrice(planLoc.midPrice, planReq.bandBps) IN
       \E res \in PriceToBinIndex(gateway, planReq.pool, price) :
          /\ planCalls' = Append(planCalls, Call("priceToBinIndex", price, res))
          /\ IF res.ok
             THEN /\ planLoc' = [planLoc EXCEPT !.lowerBin = res.value]
                  /\ planPc' = "upperBin"
                  /\ planReplies' = planReplies
             ELSE /\ planLoc' = planLoc
                  /\ planPc' = "done"
                  /\ planReplies' = Append(planReplies,
                         MapResultProblem(res, "Failed to compute lower band bin"))
    /\ UNCHANGED planReq
    /\ UNCHANGED <<gwVars, advVars, btVars, csvVars, linkVars, botVars, svcVars>>

\* computeTargetBins: await priceToBinIndex(pool, upperPrice); mapResult; the
\* band is returned to the handler, which computes inBand and replies.
PlanUpperBin ==
    /\ planPc = "upperBin"
    /\ LET price == UpperPrice(planLoc.midPrice, planReq.bandBps) IN
       \E res \in PriceToBinIndex(gateway, planReq.pool, price) :
          /\ planCalls' = Append(planCalls, Call("priceToBinIndex", price, res))
          /\ planPc' = "done"
          /\ IF res.ok
             THEN /\ planLoc' = [planLoc EXCEPT !.upperBin = res.value]
                  /\ planReplies' = Append(planReplies,
                         PlanResponse(TargetBins(planLoc.lowerBin, res.value,
                                                 planLoc.currentBin),
                                      planLoc.midPrice))
             ELSE /\ planLoc' = planLoc
                  /\ planReplies' = Append(planReplies,
                         MapResultProblem(res, "Failed to compute upper band bin"))
    /\ UNCHANGED planReq
    /\ UNCHANGED <<gwVars, advVars, btVars, csvVars, linkVars, botVars, svcVars>>

(***************************************************************************)
(* POST /orders/advanced/plan.                                             *)
(***************************************************************************)
Kinds == {"limitBuy", "limitSell", "stopLoss"}

\* spec.sizeBase and spec.sizeQuote: left out, a string, or a value that is
\* no string.
NoSize     == [given |-> FALSE, string |-> FALSE, text |-> ""]
Size(text) == [given |-> TRUE, string |-> TRUE, text |-> text]

Sizes == {NoSize, Size(""), Size("0"), Size("5"),
          [given |-> TRUE, string |-> FALSE, text |-> ""]}

\* spec.targetPrice in units of 1e-8: 0, 0.001, 0.01 and 0.03.
AdvancedRequests ==
    [walletOk : BOOLEAN, pool : Pools, kind : Kinds,
     targetPrice : {0, 100000, 1000000, 3000000},
     sizeQuote : Sizes, sizeBase : Sizes]

\* z.string().optional()
OptionalString(size) == ~size.given \/ size.string

\* AdvancedPlanReq.safeParse(request.body).success
AdvancedPlanReqValid(body) ==
    /\ body.walletOk
    /\ body.pool # ""
    /\ body.kind \in Kinds
    /\ body.targetPrice > 0
    /\ OptionalString(body.sizeQuote)
    /\ OptionalString(body.sizeBase)

\* Array.prototype.filter with the predicate bin >= 0 (the bins are finite).
RECURSIVE FilterNonNegative(_)
FilterNonNegative(s) ==
    IF s = <<>> THEN <<>>
    ELSE IF Head(s) >= 0 THEN <<Head(s)>> \o FilterNonNegative(Tail(s))
    ELSE FilterNonNegative(Tail(s))

SeqToSet(s) == {s[i] : i \in DOMAIN s}

\* Array.from(new Set(s)): first occurrences, in insertion order.
RECURSIVE Unique(_)
Unique(s) ==
    IF s = <<>> THEN <<>>
    ELSE LET front == Unique(SubSeq(s, 1, Len(s) - 1))
             last  == s[Len(s)]
         IN IF last \in SeqToSet(front) THEN front ELSE Append(front, last)

RECURSIVE InsertAscending(_, _)
InsertAscending(s, x) ==
    IF s = <<>> THEN <<x>>
    ELSE IF x < Head(s) THEN <<x>> \o s
    ELSE <<Head(s)>> \o InsertAscending(Tail(s), x)

\* Array.prototype.sort((a, b) => a - b).
RECURSIVE SortAscending(_)
SortAscending(s) ==
    IF s = <<>> THEN <<>>
    ELSE InsertAscending(SortAscending(Tail(s)), Head(s))

\* Variant of coreBins that ignores the kind.
CoreBinsAllAbove(kind, baseIndex) == <<baseIndex, baseIndex + 1, baseIndex + 2>>

\* coreBins of buildAdvancedBins.
CoreBins(kind, baseIndex) ==
    IF kind = "limitSell"
    THEN <<baseIndex, baseIndex + 1, baseIndex + 2>>
    ELSE <<baseIndex, baseIndex - 1, baseIndex - 2>>

\* Variant of buildAdvancedBins without the final sort.
BuildAdvancedBinsUnsorted(kind, baseIndex) ==
    LET unique == Unique(FilterNonNegative(CoreBins(kind, baseIndex)))
    IN IF Len(unique) = 0 THEN <<Max(0, baseIndex)>> ELSE unique

\* buildAdvancedBins(kind, baseIndex) for an integer baseIndex (Math.trunc is
\* the identity on integers).
BuildAdvancedBins(kind, baseIndex) ==
    LET unique == Unique(FilterNonNegative(CoreBins(kind, baseIndex)))
        filled == IF Len(unique) = 0 THEN Append(unique, Max(0, baseIndex)) ELSE unique
    IN SortAscending(filled)

SingleSidedForKind(kind) ==
    IF kind = "limitSell" \/ kind = "stopLoss" THEN "base" ELSE "quote"

\* The 200 body of /orders/advanced/plan (the note is a fixed text per kind).
AdvancedPlanResp(kind, baseIndex) ==
    [kind        |-> "ok",
     bins        |-> BuildAdvancedBins(kind, baseIndex),
     singleSided |-> SingleSidedForKind(kind),
     note        |-> kind]

NoAdvLoc == [baseIndex |-> 0]

AdvIdle ==
    /\ advPc = "off"
    /\ advReq = [walletOk |-> FALSE, pool |-> "", kind |-> "limitBuy", targetPrice |-> 0,
                 sizeQuote |-> NoSize, sizeBase |-> NoSize]
    /\ advLoc = NoAdvLoc
    /\ advCalls = <<>>
    /\ advReplies = <<>>

\* Body validation, up to the first await.
AdvReceive ==
    /\ advPc = "received"
    /\ IF AdvancedPlanReqValid(advReq)
       THEN /\ advPc' = "index"
            /\ advReplies' = advReplies
       ELSE /\ advPc' = "done"
            /\ advReplies' = Append(advReplies,
                   SendProblem("Invalid Request", 400, "zod", "InvalidInput"))
    /\ UNCHANGED <<advReq, advLoc, advCalls>>
    /\ UNCHANGED <<gwVars, planVars, btVars, csvVars, linkVars, botVars, svcVars>>

\* await priceToBinIndex(pool, spec.targetPrice); mapResult; build and reply.
AdvIndex ==
    /\ advPc = "index"
    /\ \E res \in PriceToBinIndex(gateway, advReq.pool, advReq.targetPrice) :
          /\ advCalls' = Append(advCalls,
                                Call("priceToBinIndex", advReq.targetPrice, res))
          /\ advPc' = "done"
          /\ IF res.ok
             THEN /\ advLoc' = [advLoc EXCEPT !.baseIndex = res.value]
                  /\ advReplies' = Append(advReplies,
                                          AdvancedPlanResp(advReq.kind, res.value))
             ELSE /\ advLoc' = advLoc
                  /\ advReplies' = Append(advReplies,
                         MapResultProblem(res, "Failed to calculate target bin"))
    /\ UNCHANGED advReq
    /\ UNCHANGED <<gwVars, planVars, btVars, csvVars, linkVars, botVars, svcVars>>

(***************************************************************************)
(* Specifications of the two planning routes.                              *)
(***************************************************************************)
Gateways == {"mock", "live", "opaque"}

BtIdle ==
    /\ rows = <<>>
    /\ run = <<>>

\* The analytics page before any upload: no file, no toast, no name.
NoCsv ==
    [pc |-> "idle",
     file |-> [outcome |-> "none", errors |-> FALSE, fields |-> {}, data |-> <<>>],
     index |-> 0, parsed |-> <<>>, loading |-> FALSE,
     toast |-> [kind |-> "none", text |-> "", row |-> 0, columns |-> <<>>],
     name |-> ""]

CsvIdle == csv = NoCsv

\* The link store of a strategy service that has served no request.
LinksIdle == links = [pendingByCode |-> <<>>, walletByTelegram |-> <<>>]

\* A bot that has received no command.
BotIdle == bot = [pc |-> "off"]

\* A gateway client that has served no liquidity call.
LiqIdle == liq = [count |-> 0, sdkCalls |-> 0, first |-> <<>>, last |-> <<>>]

\* The strategy service before any execute/arm/disarm request: the
\* walletCooldown Map is empty.
ExecIdle == svc = [now |-> 0, ticks |-> 0, walletCooldown |-> <<>>, served |-> <<>>]

\* retry is not running.
RetryIdle == rt = [pc |-> "off"]

SvcIdle == LiqIdle /\ ExecIdle /\ RetryIdle

InitPlan ==
    /\ gateway \in Gateways
    /\ planPc = "received"
    /\ planReq \in PlanRequests
    /\ planLoc = NoPlanLoc
    /\ planCalls = <<>>
    /\ planReplies = <<>>
    /\ AdvIdle
    /\ BtIdle
    /\ CsvIdle
    /\ LinksIdle
    /\ BotIdle
    /\ SvcIdle

NextPlan ==
    \/ PlanReceive
    \/ PlanMidPrice
    \/ PlanCurrentBin
    \/ PlanLowerBin
    \/ PlanUpperBin

SpecPlan == InitPlan /\ [][NextPlan]_vars

InitAdvanced ==
    /\ gateway \in Gateways
    /\ advPc = "received"
    /\ advReq \in AdvancedRequests
    /\ advLoc = NoAdvLoc
    /\ advCalls = <<>>
    /\ advReplies = <<>>
    /\ PlanIdle
    /\ BtIdle
    /\ CsvIdle
    /\ LinksIdle
    /\ BotIdle
    /\ SvcIdle

NextAdvanced ==
    \/ AdvReceive
    \/ AdvIndex

SpecAdvanced == InitAdvanced /\ [][NextAdvanced]_vars

\* One request to either planning route.
InitRoutes ==
    /\ gateway \in Gateways
    /\ \/ /\ planPc = "received"
          /\ planReq \in PlanRequests
          /\ planLoc = NoPlanLoc
          /\ planCalls = <<>>
          /\ planReplies = <<>>
          /\ AdvIdle
       \/ /\ advPc = "received"
          /\ advReq \in AdvancedRequests
          /\ advLoc = NoAdvLoc
          /\ advCalls = <<>>
          /\ advReplies = <<>>
          /\ PlanIdle
    /\ BtIdle
    /\ CsvIdle
    /\ LinksIdle
    /\ BotIdle
    /\ SvcIdle

NextRoutes ==
    \/ PlanReceive
    \/ PlanMidPrice
    \/ PlanCurrentBin
    \/ PlanLowerBin
    \/ PlanUpperBin
    \/ AdvReceive
    \/ AdvIndex

SpecRoutes == InitRoutes /\ [][NextRoutes]_vars

(***************************************************************************)
(* The analytics backtest: runBacktest(rows, bandBps, cooldownSec).        *)
(***************************************************************************)
FEE_PER_EXIT == 2               \* 0.0002 in units of 1e-4
EquityOne    == 1000000000      \* 1.0 in units of 1e-9
MsPerSec     == 1000

\* A double: a finite integer, NaN or -Infinity.
Fin(n)      == [k |-> "fin", v |-> n]
NaN         == [k |-> "nan", v |-> 0]
NegInf      == [k |-> "-inf", v |-> 0]
IsFinite(x) == x.k = "fin"

Times == {0, 1000}

\* The candles the inputs are built from: a flat candle at each of the
\* prices 1, 2 and 4, one wide candle that closes inside its own range, and
\* rows in which one of t, h, l, c is not a finite number.
Candles ==
    {[t |-> Fin(t), h |-> Fin(p), l |-> Fin(p), c |-> Fin(p)] :
         t \in Times, p \in {1, 2, 4}}
        \cup {[t |-> Fin(t), h |-> Fin(4), l |-> Fin(1), c |-> Fin(2)] : t \in Times}
        \cup {[t |-> Fin(0), h |-> Fin(4), l |-> Fin(1), c |-> NaN],
              [t |-> NaN, h |-> Fin(4), l |-> Fin(1), c |-> Fin(2)],
              [t |-> Fin(1000), h |-> NaN, l |-> Fin(1), c |-> Fin(4)],
              [t |-> Fin(1000), h |-> Fin(4), l |-> NegInf, c |-> Fin(1)]}

SeqsUpTo(S, n) == UNION {[1..k -> S] : k \in 0..n}

\* toBand(price): the band edges in units of tick/10000.  A NaN price gives
\* a NaN band.
ToBand(price, bandBps) ==
    IF IsFinite(price)
    THEN [lower |-> Fin(price.v * (BpsDenominator - bandBps)),
          upper |-> Fin(price.v * (BpsDenominator + bandBps))]
    ELSE [lower |-> NaN, upper |-> NaN]

\* Variant of the guard that looks at the close only.
RowIsFiniteCloseOnly(row) == IsFinite(row.c)

\* The guard at the top of the loop body.
RowIsFinite(row) ==
    IsFinite(row.t) /\ IsFinite(row.h) /\ IsFinite(row.l) /\ IsFinite(row.c)

\* Variant of canExit without the cooldown.
CanExitAlways(row, lastExitTs, cooldownSec) == TRUE

\* canExit = row.t >= lastExitTs + cooldownSec * 1000; -Infinity + x is
\* -Infinity and every finite t is >= -Infinity.
CanExit(row, lastExitTs, cooldownSec) ==
    IF IsFinite(lastExitTs)
    THEN row.t.v >= lastExitTs.v + cooldownSec * MsPerSec
    ELSE lastExitTs.k = "-inf"

\* Variant of hitUpper with >=.
HitUpperInclusive(row, band) ==
    IsFinite(band.upper) /\ row.h.v * BpsDenominator >= band.upper.v

\* hitUpper = row.h > band.upper (a comparison with NaN is false).
HitUpper(row, band) ==
    IsFinite(band.upper) /\ row.h.v * BpsDenominator > band.upper.v

\* Variant of hitLower with <=.
HitLowerInclusive(row, band) ==
    IsFinite(band.lower) /\ row.l.v * BpsDenominator <= band.lower.v

\* hitLower = row.l < band.lower (a comparison with NaN is false).
HitLower(row, band) ==
    IsFinite(band.lower) /\ row.l.v * BpsDenominator < band.lower.v

\* Variant of gain that charges the fee instead of earning it.
GainAsLoss(equity) ==
    0 - ((equity * FEE_PER_EXIT + BpsDenominator \div 2) \div BpsDenominator)

\* Variant of gain taken on the starting equity 1.0 (no compounding).
GainNotCompounded(equity) ==
    (EquityOne * FEE_PER_EXIT + BpsDenominator \div 2) \div BpsDenominator

\* gain = equity * FEE_PER_EXIT, to the nearest 1e-9.
Gain(equity) ==
    (equity * FEE_PER_EXIT + BpsDenominator \div 2) \div BpsDenominator

\* Number(equity.toFixed(6)), in units of 1e-6.
ToFixed6(equity) == (equity + 500) \div 1000

\* Number(totalFeesPct.toFixed(4)) of totalFeesPct = equity > 0 ?
\* (equity - 1.0) * 100 : 0, in units of 1e-4 percent.
TotalFeesPct(equity) ==
    IF equity > 0 THEN ((equity - EquityOne) + 500) \div 1000 ELSE 0

NoResult == [equitySeries |-> <<>>, exits |-> 0, totalFeesPct |-> 0, finalEquity |-> 0]

\* An invocation that has not been made (or has returned).
IdleLocals ==
    [pc |-> "idle", bandBps |-> 0, cooldownSec |-> 0, idx |-> 0, equity |-> 0,
     exits |-> 0, lastExitTs |-> NegInf,
     band |-> [lower |-> NaN, upper |-> NaN], equitySeries |-> <<>>,
     result |-> NoResult]

\* Variant of the locals in which equity is shared with the other
\* invocations instead of starting at 1.0.
StartLocalsShared(rws, bandBps, cooldownSec) ==
    LET live   == {r \in DOMAIN run : run[r].pc # "idle"}
        others == {run[r].equity : r \in live} \cup {EquityOne}
    IN [pc |-> "loop", bandBps |-> bandBps, cooldownSec |-> cooldownSec, idx |-> 1,
        equity |-> CHOOSE e \in others : \A o \in others : e >= o,
        exits |-> 0, lastExitTs |-> NegInf,
        band |-> ToBand(IF rws = <<>> THEN Fin(1) ELSE rws[1].c, bandBps),
        equitySeries |-> <<>>, result |-> NoResult]

\* The locals of runBacktest before the loop.
StartLocals(rws, bandBps, cooldownSec) ==
    [pc |-> "loop", bandBps |-> bandBps, cooldownSec |-> cooldownSec, idx |-> 1,
     equity |-> EquityOne, exits |-> 0, lastExitTs |-> NegInf,
     band |-> ToBand(IF rws = <<>> THEN Fin(1) ELSE rws[1].c, bandBps),
     equitySeries |-> <<>>, result |-> NoResult]

\* One iteration of the loop over rows.
StepCandle(loc, row) ==
    IF ~RowIsFinite(row)
    THEN [loc EXCEPT !.idx = @ + 1]
    ELSE LET exit  == /\ CanExit(row, loc.lastExitTs, loc.cooldownSec)
                      /\ (HitUpper(row, loc.band) \/ HitLower(row, loc.band))
             after == IF exit
                      THEN [loc EXCEPT !.exits = @ + 1,
                                       !.lastExitTs = row.t,
                                       !.equity = @ + Gain(@),
                                       !.band = ToBand(row.c, loc.bandBps)]
                      ELSE loc
         IN [after EXCEPT !.idx = @ + 1,
                          !.equitySeries = Append(@, [t |-> row.t.v,
                                                      equity |-> ToFixed6(after.equity)])]

\* The statements after the loop: the returned BacktestResult.
FinishLocals(loc) ==
    [loc EXCEPT !.pc = "done",
                !.result = [equitySeries |-> loc.equitySeries,
                            exits        |-> loc.exits,
                            totalFeesPct |-> TotalFeesPct(loc.equity),
                            finalEquity  |-> ToFixed6(loc.equity)]]

BtStart(r) ==
    /\ run[r].pc = "idle"
    /\ \E b \in {5000, 10000}, cd \in {0, 1, 2} :
          run' = [run EXCEPT ![r] = StartLocals(rows, b, cd)]
    /\ UNCHANGED <<rows, gwVars, planVars, advVars, csvVars, linkVars, botVars, svcVars>>

BtCandle(r) ==
    /\ run[r].pc = "loop"
    /\ run[r].idx <= Len(rows)
    /\ run' = [run EXCEPT ![r] = StepCandle(run[r], rows[run[r].idx])]
    /\ UNCHANGED <<rows, gwVars, planVars, advVars, csvVars, linkVars, botVars, svcVars>>

BtFinish(r) ==
    /\ run[r].pc = "loop"
    /\ run[r].idx > Len(rows)
    /\ run' = [run EXCEPT ![r] = FinishLocals(run[r])]
    /\ UNCHANGED <<rows, gwVars, planVars, advVars, csvVars, linkVars, botVars, svcVars>>

\* The caller drops the result (a new upload or a changed parameter replaces
\* it); the next invocation starts from fresh locals.
BtReturn(r) ==
    /\ run[r].pc = "done"
    /\ run' = [run EXCEPT ![r] = IdleLocals]
    /\ UNCHANGED <<rows, gwVars, planVars, advVars, csvVars, linkVars, botVars, svcVars>>

\* A single invocation.
InitBacktest ==
    /\ rows \in SeqsUpTo(Candles, MaxCandles)
    /\ run = [r \in {1} |-> IdleLocals]
    /\ gateway = "mock"
    /\ PlanIdle
    /\ AdvIdle
    /\ CsvIdle
    /\ LinksIdle
    /\ BotIdle
    /\ SvcIdle

NextBacktest ==
    \/ BtStart(1)
    \/ BtCandle(1)
    \/ BtFinish(1)

SpecBacktest == InitBacktest /\ [][NextBacktest]_vars

\* Two invocations on the same candle list, interleaved at every iteration
\* and repeated at will (two tabs, or a parameter changed during a run).
InitRuns ==
    /\ rows \in SeqsUpTo(Candles, MaxRunCandles)
    /\ run = [r \in {1, 2} |-> IdleLocals]
    /\ gateway = "mock"
    /\ PlanIdle
    /\ AdvIdle
    /\ CsvIdle
    /\ LinksIdle
    /\ BotIdle
    /\ SvcIdle

NextRuns ==
    \E r \in {1, 2} :
        \/ BtStart(r)
        \/ BtCandle(r)
        \/ BtFinish(r)
        \/ BtReturn(r)

SpecRuns == InitRuns /\ [][NextRuns]_vars

(***************************************************************************)
(* The CSV upload of the analytics page: handleCsvUpload and the callbacks *)
(* it hands to Papa.parse.  A number read from a file is held as the pair  *)
(* mega * 10^6 + unit, so that timestamps up to 10^15 are exact.           *)
(***************************************************************************)
MaxCsvRows == 3   \* longest data section of an uploaded file

REQUIRED_HEADERS == <<"timestamp", "open", "high", "low", "close">>

Mega == 1000000

Big(m, u) == [mega |-> m, unit |-> u]

Times1000(a) ==
    LET u == a.unit * 1000
    IN Big(a.mega * 1000 + u \div Mega, u % Mega)

\* toMillis(rawTimestamp): rawTimestamp > 1_000_000_000_000, which is
\* Big(1000000, 0).
ToMillis(rawTimestamp) ==
    IF \/ rawTimestamp.mega > 1000000
       \/ rawTimestamp.mega = 1000000 /\ rawTimestamp.unit > 0
    THEN rawTimestamp
    ELSE Times1000(rawTimestamp)

\* A number of the page, or null.
CsvNum(b) == [k |-> "fin", v |-> b]
Null      == [k |-> "null", v |-> Big(0, 0)]

\* The value of one field of a parsed row (CsvRow): a number, a string,
\* null or undefined.
NumberCell(b)    == [k |-> "number", finite |-> TRUE, v |-> b, s |-> ""]
StringCell(text) == [k |-> "string", finite |-> FALSE, v |-> Big(0, 0), s |-> text]
Undefined        == [k |-> "undefined", finite |-> FALSE, v |-> Big(0, 0), s |-> ""]

\* Number(text) on the strings of the model; NaN for the others.
NumberOf(text) ==
    CASE text = "7"   -> CsvNum(Big(0, 7))
      [] text = " 7 " -> CsvNum(Big(0, 7))
      [] text = ""    -> CsvNum(Big(0, 0))
      [] text = "  "  -> CsvNum(Big(0, 0))
      [] OTHER        -> [k |-> "nan", v |-> Big(0, 0)]

\* Variant of toNumber that turns what is not a number into 0.
ToNumberLenient(value) ==
    IF value.k = "number" /\ value.finite THEN CsvNum(value.v)
    ELSE IF value.k = "string" /\ IsFinite(NumberOf(value.s)) THEN NumberOf(value.s)
    ELSE CsvNum(Big(0, 0))

\* toNumber(value); of the strings of the model, "" and "  " trim to the
\* empty string.
ToNumber(value) ==
    IF value.k = "number"
    THEN IF value.finite THEN CsvNum(value.v) ELSE Null
    ELSE IF value.k = "string" /\ value.s \notin {"", "  "}
    THEN LET numeric == NumberOf(value.s)
         IN IF IsFinite(numeric) THEN numeric ELSE Null
    ELSE Null

\* Variant of the header check that misses nothing.
MissingHeadersNone(fields) == <<>>

\* REQUIRED_HEADERS.filter((header) => !fields.includes(header))
MissingHeaders(fields) == SelectSeq(REQUIRED_HEADERS, LAMBDA header : header \notin fields)

\* The rows the files are built from.
CsvRowOf(ts, o, h, l, c) ==
    [present |-> TRUE, timestamp |-> ts, open |-> o, high |-> h, low |-> l, close |-> c]

Price(n) == NumberCell(Big(0, n))

\* The rows the files are built from: rows of numbers with the timestamps
\* 1.7e9 (seconds), 10^12 - 1, 10^12, 10^12 + 1 and 1.7e12 (milliseconds);
\* a row of numeric strings; an entry of results.data that is no object;
\* and rows with one field that is no number (a word, undefined, a
\* non-finite number, blanks, null).
CsvRows ==
    LET at == NumberCell(Big(1700, 0))
        nonFinite == [k |-> "number", finite |-> FALSE, v |-> Big(0, 0), s |-> ""]
        null == [k |-> "null", finite |-> FALSE, v |-> Big(0, 0), s |-> ""]
    IN {CsvRowOf(NumberCell(ts), Price(2), Price(4), Price(1), Price(3)) :
            ts \in {Big(1700, 0), Big(999999, 999999), Big(1000000, 0),
                    Big(1000000, 1), Big(1700000, 0)}}
       \cup {CsvRowOf(StringCell("7"), StringCell(" 7 "), StringCell("7"),
                      StringCell("7"), StringCell("7")),
             [present |-> FALSE, timestamp |-> Undefined, open |-> Undefined,
              high |-> Undefined, low |-> Undefined, close |-> Undefined],
             CsvRowOf(at, Price(2), Price(4), Price(1), StringCell("abc")),
             CsvRowOf(at, Price(2), Undefined, Price(1), Price(3)),
             CsvRowOf(at, Price(2), Price(4), nonFinite, Price(3)),
             CsvRowOf(StringCell("  "), Price(2), Price(4), Price(1), Price(3)),
             CsvRowOf(at, null, Price(4), Price(1), Price(3))}

\* A row as parsed under a header: a column the header lacks is undefined.
UnderHeader(row, fields) ==
    [row EXCEPT !.timestamp = IF "timestamp" \in fields THEN @ ELSE Undefined,
                !.open      = IF "open" \in fields THEN @ ELSE Undefined,
                !.high      = IF "high" \in fields THEN @ ELSE Undefined,
                !.low       = IF "low" \in fields THEN @ ELSE Undefined,
                !.close     = IF "close" \in fields THEN @ ELSE Undefined]

\* What Papa.parse can hand back: the complete callback with results
\* {errors, meta.fields, data}, or the error callback.  The header line is
\* complete, lacks close, or lacks timestamp and open.
CsvFiles ==
    {[outcome |-> "complete", errors |-> e, fields |-> f,
      data |-> [i \in DOMAIN d |-> UnderHeader(d[i], f)]] :
        e \in BOOLEAN,
        f \in {{"timestamp", "open", "high", "low", "close"},
               {"timestamp", "open", "high", "low"},
               {"high", "low", "close"}},
        d \in SeqsUpTo(CsvRows, MaxCsvRows)}
    \cup {[outcome |-> "error", errors |-> FALSE, fields |-> {}, data |-> <<>>]}

Toast(kind, text, row, columns) ==
    [kind |-> kind, text |-> text, row |-> row, columns |-> columns]

\* toast.error(...); setBacktestRows([]); setCsvName(""); return
CsvAbort(text, row, columns) ==
    /\ csv' = [csv EXCEPT !.pc = "done", !.loading = FALSE, !.name = "",
                          !.toast = Toast("error", text, row, columns)]
    /\ rows' = <<>>

\* handleCsvUpload with a file chosen: the loading toast, Papa.parse started.
CsvUpload ==
    /\ csv.pc = "idle"
    /\ \E file \in CsvFiles :
          csv' = [csv EXCEPT !.pc = "parsing", !.file = file, !.loading = TRUE,
                            !.toast = Toast("loading", "Parsing CSV file...", 0, <<>>)]
    /\ UNCHANGED <<rows, run, gwVars, planVars, advVars, linkVars, botVars, svcVars>>

\* The error callback.
CsvError ==
    /\ csv.pc = "parsing"
    /\ csv.file.outcome = "error"
    /\ CsvAbort("parse error", 0, <<>>)
    /\ UNCHANGED <<run, gwVars, planVars, advVars, linkVars, botVars, svcVars>>

\* The complete callback up to the row loop: results.errors, then the
\* header check.
CsvComplete ==
    /\ csv.pc = "parsing"
    /\ csv.file.outcome = "complete"
    /\ IF csv.file.errors
       THEN CsvAbort("parse error", 0, <<>>)
       ELSE IF Len(MissingHeaders(csv.file.fields)) > 0
       THEN CsvAbort("missing columns", 0, MissingHeaders(csv.file.fields))
       ELSE /\ csv' = [csv EXCEPT !.pc = "rows", !.loading = FALSE,
                                  !.parsed = <<>>, !.index = 0]
            /\ rows' = rows
    /\ UNCHANGED <<run, gwVars, planVars, advVars, linkVars, botVars, svcVars>>

\* One iteration of the loop over results.data.
CsvRow ==
    /\ csv.pc = "rows"
    /\ csv.index < Len(csv.file.data)
    /\ LET row   == csv.file.data[csv.index + 1]
           ts    == ToNumber(row.timestamp)
           open  == ToNumber(row.open)
           high  == ToNumber(row.high)
           low   == ToNumber(row.low)
           close == ToNumber(row.close)
       IN IF ~row.present
          THEN CsvAbort("empty row encountered", csv.index + 2, <<>>)
          ELSE IF ts = Null \/ open = Null \/ high = Null \/ low = Null \/ close = Null
          THEN CsvAbort("numeric values required", csv.index + 2, <<>>)
          ELSE /\ csv' = [csv EXCEPT
                            !.parsed = Append(@, [t |-> CsvNum(ToMillis(ts.v)), o |-> open,
                                                  h |-> high, l |-> low, c |-> close]),
                            !.index = @ + 1]
               /\ rows' = rows
    /\ UNCHANGED <<run, gwVars, planVars, advVars, linkVars, botVars, svcVars>>

\* After the loop: an empty list is refused, any other is stored.
CsvStore ==
    /\ csv.pc = "rows"
    /\ csv.index >= Len(csv.file.data)
    /\ IF Len(csv.parsed) = 0
       THEN CsvAbort("no valid rows found", 0, <<>>)
       ELSE /\ csv' = [csv EXCEPT !.pc = "done", !.name = "candles.csv",
                                  !.toast = Toast("success", "Successfully loaded",
                                                  Len(csv.parsed), <<>>)]
            /\ rows' = csv.parsed
    /\ UNCHANGED <<run, gwVars, planVars, advVars, linkVars, botVars, svcVars>>

\* The page before an upload: nothing stored yet, or the candles of an
\* earlier file.
InitCsv ==
    /\ \/ rows = <<>> /\ csv = NoCsv
       \/ /\ rows = <<[t |-> CsvNum(Big(1700000, 0)), o |-> CsvNum(Big(0, 2)),
                       h |-> CsvNum(Big(0, 4)), l |-> CsvNum(Big(0, 1)),
                       c |-> CsvNum(Big(0, 3))]>>
          /\ csv = [NoCsv EXCEPT !.name = "previous.csv"]
    /\ run = <<>>
    /\ gateway = "mock"
    /\ PlanIdle
    /\ AdvIdle
    /\ LinksIdle
    /\ BotIdle
    /\ SvcIdle

NextCsv ==
    \/ CsvUpload
    \/ CsvError
    \/ CsvComplete
    \/ CsvRow
    \/ CsvStore

SpecCsv == InitCsv /\ [][NextCsv]_vars

(***************************************************************************)
(* Wallet linking: botLinkStore (createCode, consumeCode, getWallet) and   *)
(* the routes /bot/link-code, /bot/consume-link and /bot/wallet/:id.  The  *)
(* three handlers have no await: each request is one step.                 *)
(***************************************************************************)
MaxLinkTicks == 2   \* the service's clock advances at most this often

linkRateLimitMs  == 10000
DefaultTtlMs     == 600000
MaxCodeAttempts  == 5
MockWalletKey    == "11111111111111111111111111111111"
UserWalletKey    == "HY16sPSLWasPdLzBSYs2KV3gbt1EzxK1Wp6kQL5vjSpv"

\* The codes generateCode can draw (two of the 32^8).
Codes == {"AAAAAAAA", "BBBBBBBB"}

\* The telegramId of a request: 0 is refused by telegramIdSchema.
TelegramIds == {0, 1, 2}

\* publicKeySchema: 32 to 64 characters that decode as a public key.
ValidPublicKey(wallet) == wallet \in {MockWalletKey, UserWalletKey}

\* linkCodeSchema: 6 to 16 upper-case letters and digits.
ValidLinkCode(code) == code \in Codes

\* map.get(key) of a Map held as a function; absent when key is no key.
Has(map, key) == key \in DOMAIN map

Put(map, key, value) ==
    [k \in DOMAIN map \cup {key} |-> IF k = key THEN value ELSE map[k]]

Delete(map, key) == [k \in DOMAIN map \ {key} |-> map[k]]

\* Variant of createCode's loop that gives up one redraw earlier.
RECURSIVE PickCodeFewer(_, _, _)
PickCodeFewer(pending, draws, attempt) ==
    IF Has(pending, draws[attempt + 1]) /\ attempt < MaxCodeAttempts - 1
    THEN PickCodeFewer(pending, draws, attempt + 1)
    ELSE draws[attempt + 1]

\* createCode: the code it settles on, given the codes generateCode draws
\* (the first draw and MaxCodeAttempts redraws).
RECURSIVE PickCode(_, _, _)
PickCode(pending, draws, attempt) ==
    IF Has(pending, draws[attempt + 1]) /\ attempt < MaxCodeAttempts
    THEN PickCode(pending, draws, attempt + 1)
    ELSE draws[attempt + 1]

\* createCode(wallet): the store after it and the code returned.
CreateCode(store, wallet, draws) ==
    LET code == PickCode(store.pendingByCode, draws, 0)
    IN [store |-> [store EXCEPT !.pendingByCode =
                       Put(@, code, [wallet |-> wallet, createdAt |-> store.now,
                                     ttlMs |-> DefaultTtlMs])],
        code |-> code]

\* Variant of consumeCode for which a code expires when its age reaches
\* the ttl.
ConsumeCodeExpiresAtTtl(store, code, telegramId) ==
    IF ~Has(store.pendingByCode, code)
    THEN [store |-> store, ok |-> FALSE, reason |-> "invalid", wallet |-> ""]
    ELSE LET pending == store.pendingByCode[code] IN
         IF store.now - pending.createdAt >= pending.ttlMs
         THEN [store |-> [store EXCEPT !.pendingByCode = Delete(@, code)],
               ok |-> FALSE, reason |-> "expired", wallet |-> ""]
         ELSE [store |-> [store EXCEPT
                            !.pendingByCode = Delete(@, code),
                            !.walletByTelegram =
                                Put(@, telegramId, [wallet |-> pending.wallet])],
               ok |-> TRUE, reason |-> "", wallet |-> pending.wallet]

\* Variant of consumeCode that keeps the first wallet bound to a user.
ConsumeCodeFirstWins(store, code, telegramId) ==
    IF ~Has(store.pendingByCode, code)
    THEN [store |-> store, ok |-> FALSE, reason |-> "invalid", wallet |-> ""]
    ELSE LET pending == store.pendingByCode[code] IN
         IF store.now - pending.createdAt > pending.ttlMs
         THEN [store |-> [store EXCEPT !.pendingByCode = Delete(@, code)],
               ok |-> FALSE, reason |-> "expired", wallet |-> ""]
         ELSE [store |-> [store EXCEPT
                            !.pendingByCode = Delete(@, code),
                            !.walletByTelegram =
                                IF Has(@, telegramId) THEN @
                                ELSE Put(@, telegramId, [wallet |-> pending.wallet])],
               ok |-> TRUE, reason |-> "", wallet |-> pending.wallet]

\* consumeCode(code, telegramId): the store after it and the ConsumeResult.
\* (The linkedAt stamp of a binding is written and never read; it is left
\* out of the binding.)
ConsumeCode(store, code, telegramId) ==
    IF ~Has(store.pendingByCode, code)
    THEN [store |-> store, ok |-> FALSE, reason |-> "invalid", wallet |-> ""]
    ELSE LET pending == store.pendingByCode[code] IN
         IF store.now - pending.createdAt > pending.ttlMs
         THEN [store |-> [store EXCEPT !.pendingByCode = Delete(@, code)],
               ok |-> FALSE, reason |-> "expired", wallet |-> ""]
         ELSE [store |-> [store EXCEPT
                            !.pendingByCode = Delete(@, code),
                            !.walletByTelegram =
                                Put(@, telegramId, [wallet |-> pending.wallet])],
               ok |-> TRUE, reason |-> "", wallet |-> pending.wallet]

\* getWallet(telegramId); "" stands for undefined.
GetWallet(store, telegramId) ==
    IF Has(store.walletByTelegram, telegramId)
    THEN store.walletByTelegram[telegramId].wallet
    ELSE ""

\* The last request served and its response; previous is what getWallet
\* gave for the request's telegramId before it was served.
Served(route, wallet, code, telegramId, previous, reply) ==
    [route |-> route, wallet |-> wallet, code |-> code, telegramId |-> telegramId,
     previous |-> previous, reply |-> reply]

LinkOk(code, wallet) ==
    [kind |-> "ok", title |-> "", status |-> 200, hasDetail |-> FALSE, detail |-> "",
     hasCode |-> FALSE, code |-> code, wallet |-> wallet]

LinkProblem(status, title, detail, code) ==
    [kind |-> "problem", title |-> title, status |-> status,
     hasDetail |-> detail # "", detail |-> detail,
     hasCode |-> code # "", code |-> code, wallet |-> ""]

\* Date.now() moves on by 1 ms or by the ttl of a code.
LinkTick ==
    /\ links.ticks < MaxLinkTicks
    /\ \E ms \in {1, DefaultTtlMs} :
          links' = [links EXCEPT !.now = @ + ms, !.ticks = @ + 1]
    /\ UNCHANGED <<gwVars, planVars, advVars, btVars, csvVars, botVars, svcVars>>

\* generateCode's draws during one createCode: c for the first draw and
\* the first MaxCodeAttempts - 1 redraws, d for the last redraw.
Draws(c, d) == [i \in 1..(MaxCodeAttempts + 1) |-> IF i <= MaxCodeAttempts THEN c ELSE d]

\* POST /bot/link-code once the wallet passed the rate limit: the cooldown
\* is set, the code created and sent.
LinkIssued(wallet, walletToUse, draws) ==
    LET limited == [links EXCEPT !.linkCooldownByWallet =
                                     Put(@, walletToUse, links.now + linkRateLimitMs)]
        created == CreateCode(limited, walletToUse, draws)
    IN [created.store EXCEPT
           !.last = Served("link-code", wallet, "", 0, "", LinkOk(created.code, ""))]

\* POST /bot/link-code
LinkCode(wallet) ==
    LET walletToUse == IF wallet = "WALLET_MOCK" THEN MockWalletKey ELSE wallet
        nextAllowed == IF Has(links.linkCooldownByWallet, walletToUse)
                       THEN links.linkCooldownByWallet[walletToUse] ELSE 0
        refuse(reply) ==
            links' = [links EXCEPT !.last = Served("link-code", wallet, "", 0, "", reply)]
    IN /\ IF wallet = ""
          THEN refuse(LinkProblem(400, "Invalid Request", "zod", "InvalidInput"))
          ELSE IF wallet = "WALLET_MOCK" /\ ~links.MOCK_MODE
          THEN refuse(LinkProblem(400, "Invalid Request",
                                  "Mock wallet unavailable in live mode.", "InvalidInput"))
          ELSE IF ~ValidPublicKey(walletToUse)
          THEN refuse(LinkProblem(400, "Invalid Wallet", "zod", "InvalidInput"))
          ELSE IF links.now < nextAllowed
          THEN refuse(LinkProblem(429, "Rate Limited",
                                  "Try again in retryAfter seconds.", "RateLimited"))
          ELSE \E c \in Codes, d \in Codes :
                  links' = LinkIssued(wallet, walletToUse, Draws(c, d))
       /\ UNCHANGED <<gwVars, planVars, advVars, btVars, csvVars, botVars, svcVars>>

\* POST /bot/consume-link
ConsumeLink(code, telegramId) ==
    LET outcome  == ConsumeCode(links, code, telegramId)
        previous == GetWallet(links, telegramId)
        answer(store, reply) ==
            [store EXCEPT !.last = Served("consume-link", "", code, telegramId,
                                          previous, reply)]
    IN /\ links' =
            IF ~ValidLinkCode(code) \/ telegramId <= 0
            THEN answer(links, LinkProblem(400, "Invalid Request", "zod", "InvalidInput"))
            ELSE IF ~outcome.ok
            THEN answer(outcome.store,
                        LinkProblem(400, "Invalid Link Code",
                                    IF outcome.reason = "expired"
                                    THEN "Link code expired" ELSE "Invalid link code",
                                    "InvalidInput"))
            ELSE answer(outcome.store, LinkOk("", outcome.wallet))
       /\ UNCHANGED <<gwVars, planVars, advVars, btVars, csvVars, botVars, svcVars>>

\* GET /bot/wallet/:telegramId
BotWallet(telegramId) ==
    LET wallet == GetWallet(links, telegramId)
        answer(reply) ==
            [links EXCEPT !.last = Served("wallet", "", "", telegramId, wallet, reply)]
    IN /\ links' =
            IF telegramId <= 0
            THEN answer(LinkProblem(400, "Invalid Request", "zod", "InvalidInput"))
            ELSE IF wallet = ""
            THEN answer(LinkProblem(404, "Not Found",
                                    "No wallet linked for this Telegram user.", "NotFound"))
            ELSE answer(LinkOk("", wallet))
       /\ UNCHANGED <<gwVars, planVars, advVars, btVars, csvVars, botVars, svcVars>>

\* A strategy service that has started: both maps empty.
InitLinks ==
    /\ \E mockMode \in BOOLEAN :
          links = [MOCK_MODE |-> mockMode, now |-> 0, ticks |-> 0,
                   pendingByCode |-> <<>>, walletByTelegram |-> <<>>,
                   linkCooldownByWallet |-> <<>>,
                   last |-> Served("none", "", "", 0, "", LinkOk("", ""))]
    /\ gateway = "mock"
    /\ PlanIdle
    /\ AdvIdle
    /\ BtIdle
    /\ CsvIdle
    /\ BotIdle
    /\ SvcIdle

\* The requests served: a wallet that is empty, the mock alias, too short
\* or a public key; a code that is well-formed or not; any telegramId.
NextLinks ==
    \/ LinkTick
    \/ \E wallet \in {"", "WALLET_MOCK", "short", UserWalletKey} : LinkCode(wallet)
    \/ \E code \in Codes \cup {"bad code"}, telegramId \in TelegramIds :
          ConsumeLink(code, telegramId)
    \/ \E telegramId \in TelegramIds : BotWallet(telegramId)

SpecLinks == InitLinks /\ [][NextLinks]_vars

(***************************************************************************)
(* The Telegram bot (apps/bot): the wallet-using commands /status,         *)
(* /rebalance, /widen and /close, one command at a time.  Each await of a  *)
(* handler is a step.                                                      *)
(***************************************************************************)
MaxBotTicks == 4   \* the bot's clock advances at most this often

rateLimitMs      == 15000
DEFAULT_BAND_BPS == 100

\* Result<T> of the strategy client: a value, or a problem with a status, a
\* title and possibly a detail.
StrategyOk(value) == [ok |-> TRUE, value |-> value, status |-> 200, title |-> "", detail |-> ""]
StrategyProblem(status, title, detail) ==
    [ok |-> FALSE, value |-> "", status |-> status, title |-> title, detail |-> detail]

\* fmtResult
FmtResult(result) ==
    IF result.ok THEN <<"ok">>
    ELSE IF result.detail # "" THEN <<result.title, result.detail>>
    ELSE <<result.title>>

\* isAllowed(ctx)
IsAllowed(env, id) ==
    IF id = 0 THEN FALSE
    ELSE IF env.ALLOWLIST_IDS = {} THEN TRUE
    ELSE id \in env.ALLOWLIST_IDS

\* The band the command asks for; 0 when its argument is refused.
CommandBps(command, arg) ==
    CASE command = "widen" -> IF arg > 0 THEN arg ELSE 0
      [] command = "close" -> IF arg > 0 THEN Max(1, DEFAULT_BAND_BPS - arg) ELSE 0
      [] OTHER             -> DEFAULT_BAND_BPS

\* env.MOCK_MODE && env.DEFAULT_WALLET.length >= 32, with the length of
\* the wallet strings of the model.
MockFallback(env) ==
    LET length == CASE env.DEFAULT_WALLET = "WALLET_MOCK" -> 11
                    [] env.DEFAULT_WALLET = MockWalletKey -> 32
                    [] env.DEFAULT_WALLET = UserWalletKey -> 44
                    [] OTHER                              -> 0
    IN env.MOCK_MODE /\ length >= 32

\* resolveWallet once the lookup has answered.
ResolveWallet(env, linked) ==
    IF linked.ok
    THEN [ok |-> TRUE, wallet |-> linked.value, source |-> "linked", message |-> ""]
    ELSE IF linked.status # 404
    THEN [ok |-> FALSE, wallet |-> "", source |-> "",
          message |-> IF linked.detail # "" THEN linked.detail ELSE linked.title]
    ELSE IF MockFallback(env)
    THEN [ok |-> TRUE, wallet |-> env.DEFAULT_WALLET, source |-> "mock", message |-> ""]
    ELSE [ok |-> FALSE, wallet |-> "", source |-> "", message |-> "No wallet linked."]

NoLookup == StrategyProblem(0, "", "")

\* ctx.reply(text); a text is held as the sequence of its parts.
BotReply(b, text) == [b EXCEPT !.replies = Append(@, text)]

\* Date.now() moves on by 5 s between two commands.
BotTick ==
    /\ bot.pc \in {"idle", "done"}
    /\ bot.ticks < MaxBotTicks
    /\ bot' = [bot EXCEPT !.now = @ + 5000, !.ticks = @ + 1]
    /\ UNCHANGED <<gwVars, planVars, advVars, btVars, csvVars, linkVars, svcVars>>

\* bot.command(...): isAllowed, checkRate, the argument, up to the await of
\* the wallet lookup.  ctx.from?.id is missing (0), 7 or 8.
BotCommand ==
    /\ bot.pc \in {"idle", "done"}
    /\ \E id \in {0, 7, 8}, command \in {"status", "rebalance", "widen", "close"},
          arg \in {0, 50, 150} :
          LET fresh == [bot EXCEPT !.id = id, !.command = command, !.arg = arg,
                                   !.bps = 0, !.linked = NoLookup, !.wallet = "",
                                   !.source = "", !.calls = <<>>, !.replies = <<>>]
              rated == [fresh EXCEPT !.nextAllowedByUser =
                                         Put(@, id, bot.now + rateLimitMs)]
              nextAllowed == IF Has(bot.nextAllowedByUser, id)
                             THEN bot.nextAllowedByUser[id] ELSE 0
          IN IF ~IsAllowed(bot.env, id)
             THEN bot' = [BotReply(fresh, <<"Not allowed.">>) EXCEPT !.pc = "done"]
             ELSE IF bot.now < nextAllowed
             THEN bot' = [BotReply(fresh, <<"Slow down.">>) EXCEPT !.pc = "done"]
             ELSE IF CommandBps(command, arg) = 0
             THEN bot' = [BotReply(rated, <<"Usage">>) EXCEPT !.pc = "done"]
             ELSE bot' = [rated EXCEPT !.pc = "lookup", !.bps = CommandBps(command, arg)]
    /\ UNCHANGED <<gwVars, planVars, advVars, btVars, csvVars, linkVars, svcVars>>

\* withWallet: await resolveWallet(ctx), that is await getLinkedWallet,
\* which gives the linked wallet, 404 when none is linked, or another
\* failure (a bad gateway, a network error).
BotLookup ==
    /\ bot.pc = "lookup"
    /\ \E linked \in
            {StrategyOk(UserWalletKey),
             StrategyProblem(404, "Not Found", "No wallet linked for this Telegram user."),
             StrategyProblem(404, "Not Found", ""),
             StrategyProblem(502, "Network error", "fetch failed"),
             StrategyProblem(500, "Internal Server Error", "")} :
          LET resolved == ResolveWallet(bot.env, linked)
              called   == [bot EXCEPT !.linked = linked,
                                      !.calls = Append(@, [fn |-> "getWalletByTelegram",
                                                           wallet |-> "", bps |-> 0,
                                                           result |-> linked])]
          IN IF ~resolved.ok
             THEN bot' = [BotReply(called, <<resolved.message>>) EXCEPT !.pc = "done"]
             ELSE bot' = [called EXCEPT !.wallet = resolved.wallet,
                                        !.source = resolved.source,
                                        !.pc = IF resolved.source = "mock"
                                               THEN "warn" ELSE "plan"]
    /\ UNCHANGED <<gwVars, planVars, advVars, btVars, csvVars, linkVars, svcVars>>

\* withWallet: await ctx.reply('No wallet linked; using mock wallet ...').
BotWarn ==
    /\ bot.pc = "warn"
    /\ bot' = [BotReply(bot, <<"No wallet linked; using mock wallet (development mode).">>)
                  EXCEPT !.pc = "plan"]
    /\ UNCHANGED <<gwVars, planVars, advVars, btVars, csvVars, linkVars, svcVars>>

\* Variant of the handler in which doRebalanceWithWallet goes on to execute
\* whatever the plan returned.
BotPlanUnchecked ==
    /\ bot.pc = "plan"
    /\ \E plan \in {StrategyOk("plan"),
                     StrategyProblem(400, "Invalid Request", "zod"),
                     StrategyProblem(502, "Failed to fetch mid price", "")} :
          LET called == [bot EXCEPT !.calls = Append(@, [fn |-> "planRebalance",
                                                        wallet |-> bot.wallet,
                                                        bps |-> bot.bps,
                                                        result |-> plan])]
          IN IF bot.command = "status"
             THEN bot' = [BotReply(called, IF plan.ok THEN <<"Strategy service reachable">>
                                          ELSE <<"Strategy error">> \o FmtResult(plan))
                            EXCEPT !.pc = "done"]
             ELSE bot' = [called EXCEPT !.pc = "execute"]
    /\ UNCHANGED <<gwVars, planVars, advVars, btVars, csvVars, linkVars, svcVars>>

\* The handler: await planRebalance(body); /status answers with the probe,
\* doRebalanceWithWallet goes on to execute only after a plan that is ok.
BotPlan ==
    /\ bot.pc = "plan"
    /\ \E plan \in {StrategyOk("plan"),
                     StrategyProblem(400, "Invalid Request", "zod"),
                     StrategyProblem(502, "Failed to fetch mid price", "")} :
          LET called == [bot EXCEPT !.calls = Append(@, [fn |-> "planRebalance",
                                                        wallet |-> bot.wallet,
                                                        bps |-> bot.bps,
                                                        result |-> plan])]
          IN IF bot.command = "status"
             THEN bot' = [BotReply(called, IF plan.ok THEN <<"Strategy service reachable">>
                                          ELSE <<"Strategy error">> \o FmtResult(plan))
                            EXCEPT !.pc = "done"]
             ELSE IF ~plan.ok
             THEN bot' = [BotReply(called, <<"Failed">> \o FmtResult(plan))
                            EXCEPT !.pc = "done"]
             ELSE bot' = [called EXCEPT !.pc = "execute"]
    /\ UNCHANGED <<gwVars, planVars, advVars, btVars, csvVars, linkVars, svcVars>>

\* doRebalanceWithWallet: await executeRebalance(body), which gives txids
\* (possibly none) or a problem; the reply.
BotExecute ==
    /\ bot.pc = "execute"
    /\ \E exec \in {StrategyOk("MOCK-tx"), StrategyOk(""),
                     StrategyProblem(429, "Too Many Requests",
                                     "Try again in 15 seconds.")} :
          LET called == [bot EXCEPT !.calls = Append(@, [fn |-> "executeRebalance",
                                                        wallet |-> bot.wallet,
                                                        bps |-> bot.bps,
                                                        result |-> exec])]
          IN IF ~exec.ok
             THEN bot' = [BotReply(called, <<"Failed">> \o FmtResult(exec))
                            EXCEPT !.pc = "done"]
             ELSE bot' = [BotReply(called, <<"Rebalance submitted. Tx",
                                            IF exec.value = "" THEN "unknown" ELSE exec.value>>)
                            EXCEPT !.pc = "done"]
    /\ UNCHANGED <<gwVars, planVars, advVars, btVars, csvVars, linkVars, svcVars>>

\* A bot that has started and waits for a command, under every env:
\* MOCK_MODE, DEFAULT_WALLET (WALLET_MOCK when unset) and ALLOWLIST_IDS.
InitBot ==
    /\ \E env \in [MOCK_MODE : BOOLEAN,
                    DEFAULT_WALLET : {"WALLET_MOCK", MockWalletKey},
                    ALLOWLIST_IDS : {{}, {7}}] :
          bot = [pc |-> "idle", env |-> env, now |-> 0, ticks |-> 0,
                 nextAllowedByUser |-> <<>>,
                 id |-> 0, command |-> "status", arg |-> 0, bps |-> 0,
                 linked |-> NoLookup, wallet |-> "", source |-> "",
                 calls |-> <<>>, replies |-> <<>>]
    /\ gateway = "mock"
    /\ PlanIdle
    /\ AdvIdle
    /\ BtIdle
    /\ CsvIdle
    /\ LinksIdle
    /\ SvcIdle

NextBot ==
    \/ BotTick
    \/ BotCommand
    \/ BotLookup
    \/ BotWarn
    \/ BotPlan
    \/ BotExecute

SpecBot == InitBot /\ [][NextBot]_vars

(***************************************************************************)
(* The gateway's liquidity calls: addLiquidity(params) and                 *)
(* removeLiquidity(params) of packages/core dlmmClient.                    *)
(*                                                                         *)
(* A txid is the first 32 hex digits of a SHA-256 digest.  The digest is   *)
(* kept symbolic: a txid is the tuple of the 'MOCK-' prefix and the hashed *)
(* text's two parts, so two txids are equal exactly when the hashed texts  *)
(* are (the code adds the chance of a 128-bit collision).                  *)
(***************************************************************************)
LiqOk(txid)    == [ok |-> TRUE, txid |-> txid, error |-> "", detail |-> {}]
LiqFail(e, d)  == [ok |-> FALSE, txid |-> <<>>, error |-> e, detail |-> d]

\* An amount string: absent, '0' or '10'.  !value || Number(value) <= 0.
AmountMissing(amount) == ~amount.given \/ amount.text = "" \/ amount.text = "0"

\* addLiquiditySchema.safeParse(params): the paths of the issues raised.
AddLiquidityIssues(params) ==
    (IF params.pool = "" THEN {"pool"} ELSE {})
    \cup (IF params.binLower > params.binUpper THEN {"binLower"} ELSE {})
    \cup (IF params.singleSided # "quote" /\ AmountMissing(params.amountBase)
          THEN {"amountBase"} ELSE {})
    \cup (IF params.singleSided # "base" /\ AmountMissing(params.amountQuote)
          THEN {"amountQuote"} ELSE {})

\* removeLiquiditySchema.safeParse(params): the paths of the issues raised.
RemoveLiquidityIssues(params) ==
    (IF params.pool = "" THEN {"pool"} ELSE {})
    \cup (IF params.percent < 0 \/ params.percent > 100 THEN {"percent"} ELSE {})
    \cup (IF params.binLower > params.binUpper THEN {"binLower"} ELSE {})

\* validation.data: the keys of the schema, in the schema's order; a key
\* the schema does not name is stripped.
ValidationData(params) == [k \in (DOMAIN params) \ {"extra"} |-> params[k]]

\* Variant of mockTxId that salts the digest with the number of calls served.
MockTxIdSalted(prefix, payload) == <<"MOCK-", prefix, payload, liq.count>>

\* mockTxId(prefix, payload): 'MOCK-' and the digest of `${prefix}:${JSON}`.
MockTxId(prefix, payload) == <<"MOCK-", prefix, payload>>

\* wrap around the live branch: fetchPoolMetadata may throw anything, and
\* when it returns the wrapper throws 'not implemented', an SdkError.
LiveLiquidityResults ==
    {LiqFail(err, {"msg"}) : err \in {"NotFound", "RateLimited", "RpcError", "SdkError"}}
    \cup {LiqFail("SdkError", {"not implemented in the wrapper yet"})}

\* Variant that takes the mock branch before it looks at the validation.
LiquidityResultsMockFirst(op, params, issues) ==
    IF gateway = "mock" THEN {LiqOk(MockTxId(op, ValidationData(params)))}
    ELSE IF issues # {} THEN {LiqFail("InvalidInput", issues)}
    ELSE LiveLiquidityResults

\* What addLiquidity / removeLiquidity return once safeParse has run: the
\* validation failure, else the mock txid, else the live branch's failure.
LiquidityResults(op, params, issues) ==
    IF issues # {} THEN {LiqFail("InvalidInput", issues)}
    ELSE IF gateway = "mock" THEN {LiqOk(MockTxId(op, ValidationData(params)))}
    ELSE LiveLiquidityResults

\* The client after one more call: the live branch of a valid call reaches
\* the SDK (getClient, fetchPoolMetadata), nothing else does.
LiquidityServed(op, params, issues, result) ==
    LET call == [op |-> op, params |-> params, result |-> result]
    IN [count    |-> liq.count + 1,
        sdkCalls |-> liq.sdkCalls + (IF issues = {} /\ gateway # "mock" THEN 1 ELSE 0),
        first    |-> IF liq.count = 0 THEN call ELSE liq.first,
        last     |-> call]

AddLiquidity(params) ==
    /\ liq.count < MaxLiqCalls
    /\ \E result \in LiquidityResults("addLiquidity", params, AddLiquidityIssues(params)) :
          liq' = LiquidityServed("addLiquidity", params, AddLiquidityIssues(params), result)
    /\ UNCHANGED <<gwVars, planVars, advVars, btVars, csvVars, linkVars, botVars,
                   svc, rt>>

RemoveLiquidity(params) ==
    /\ liq.count < MaxLiqCalls
    /\ \E result \in LiquidityResults("removeLiquidity", params, RemoveLiquidityIssues(params)) :
          liq' = LiquidityServed("removeLiquidity", params, RemoveLiquidityIssues(params), result)
    /\ UNCHANGED <<gwVars, planVars, advVars, btVars, csvVars, linkVars, botVars,
                   svc, rt>>

\* A gateway client in mock or live mode that has served no call.
InitLiquidity ==
    /\ gateway \in {"mock", "live"}
    /\ LiqIdle
    /\ ExecIdle
    /\ RetryIdle
    /\ PlanIdle
    /\ AdvIdle
    /\ BtIdle
    /\ CsvIdle
    /\ LinksIdle
    /\ BotIdle

NextLiquidity ==
    \/ \E pool \in {"", "dummy"}, binLower \in {1, 2},
          side \in {<<"base", "10", "">>, <<"base", "0", "">>,
                    <<"quote", "", "10">>, <<"both", "10", "">>} :
          AddLiquidity([pool |-> pool, binLower |-> binLower, binUpper |-> 1,
                        singleSided |-> side[1],
                        amountBase |-> [given |-> side[2] # "", text |-> side[2]],
                        amountQuote |-> [given |-> side[3] # "", text |-> side[3]]])
    \/ \E pool \in {"", "dummy"}, binLower \in {1, 2},
          percent \in {-1, 0, 100, 101}, extra \in {0, 1} :
          RemoveLiquidity([pool |-> pool, binLower |-> binLower, binUpper |-> 1,
                           percent |-> percent, extra |-> extra])

SpecLiquidity == InitLiquidity /\ [][NextLiquidity]_vars

(***************************************************************************)
(* The wallet cooldown of the strategy service and the three routes that   *)
(* take it: POST /rebalance/execute, /orders/advanced/arm and              *)
(* /orders/advanced/disarm.  svc.served lists the requests in the order    *)
(* they were received; an arm request waits at "index" for priceToBinIndex.*)
(***************************************************************************)
walletCooldownMs == 15000

\* Variant of checkCooldown that restarts the cooldown on a refusal too.
CheckCooldownRestarting(s, wallet) ==
    LET nextAllowed == IF Has(s.walletCooldown, wallet) THEN s.walletCooldown[wallet] ELSE 0
    IN [ok |-> ~(s.now < nextAllowed),
        retryAfter |-> IF s.now < nextAllowed
                       THEN (nextAllowed - s.now + MsPerSec - 1) \div MsPerSec ELSE 0,
        walletCooldown |-> Put(s.walletCooldown, wallet, s.now + walletCooldownMs)]

\* checkCooldown(wallet): the verdict, and the Map after the call.  Nothing
\* is awaited between the get and the set.
CheckCooldown(s, wallet) ==
    LET nextAllowed == IF Has(s.walletCooldown, wallet) THEN s.walletCooldown[wallet] ELSE 0
    IN IF s.now < nextAllowed
       THEN [ok |-> FALSE,
             retryAfter |-> (nextAllowed - s.now + MsPerSec - 1) \div MsPerSec,
             walletCooldown |-> s.walletCooldown]
       ELSE [ok |-> TRUE, retryAfter |-> 0,
             walletCooldown |-> Put(s.walletCooldown, wallet, s.now + walletCooldownMs)]

\* One received request: the route, the wallet, Date.now() at the cooldown
\* check, whether the check let it through, and the response sent.  The
\* body is a local of the handler and is gone when the handler returns.
SvcRequest(route, body, at, valid, passed, pc, status, code, retryAfter) ==
    [route |-> route, wallet |-> body.wallet,
     body |-> IF pc = "done" THEN <<>> ELSE body,
     at |-> at, valid |-> valid, passed |-> passed,
     pc |-> pc, status |-> status, code |-> code, retryAfter |-> retryAfter]

\* The part the three handlers share: 400 on a body the schema refuses,
\* 429 when checkCooldown refuses, otherwise the request goes on at pc.
SvcReceive(route, body, valid, pc, status, code) ==
    LET cooldown == CheckCooldown(svc, body.wallet)
    IN IF ~valid
       THEN [svc EXCEPT !.served = Append(@,
                SvcRequest(route, body, svc.now, FALSE, FALSE, "done", 400, "InvalidInput", 0))]
       ELSE IF ~cooldown.ok
       THEN [svc EXCEPT !.walletCooldown = cooldown.walletCooldown,
                        !.served = Append(@,
                SvcRequest(route, body, svc.now, TRUE, FALSE, "done", 429, "RateLimited",
                           cooldown.retryAfter))]
       ELSE [svc EXCEPT !.walletCooldown = cooldown.walletCooldown,
                        !.served = Append(@,
                SvcRequest(route, body, svc.now, TRUE, TRUE, pc, status, code, 0))]

\* Date.now() advances between two requests, by 1 ms or by 1 ms less than
\* the cooldown.
SvcTick ==
    /\ svc.ticks < Len(svc.served)
    /\ Len(svc.served) < MaxSvcRequests
    /\ \E d \in {1, walletCooldownMs - 1} :
          svc' = [svc EXCEPT !.now = @ + d, !.ticks = @ + 1]
    /\ UNCHANGED <<gwVars, planVars, advVars, btVars, csvVars, linkVars, botVars,
                   liq, rt>>

\* POST /rebalance/execute: mock txids in mock mode, 501 in live mode.
RebalanceExecute(body) ==
    /\ Len(svc.served) < MaxSvcRequests
    /\ svc' = SvcReceive("execute", body, RebalanceBodyValid(body), "done",
                         IF gateway = "mock" THEN 200 ELSE 501,
                         IF gateway = "mock" THEN "" ELSE "NotImplemented")
    /\ UNCHANGED <<gwVars, planVars, advVars, btVars, csvVars, linkVars, botVars,
                   liq, rt>>

\* POST /orders/advanced/arm up to its await: safeParse, checkCooldown, and
\* the call of priceToBinIndex.
ArmReceive(body) ==
    /\ Len(svc.served) < MaxSvcRequests
    /\ svc' = SvcReceive("arm", body, AdvancedPlanReqValid(body), "index", 0, "")
    /\ UNCHANGED <<gwVars, planVars, advVars, btVars, csvVars, linkVars, botVars,
                   liq, rt>>

\* !amount || Number(amount) <= 0 for the side the kind requires.
ArmSizeMissing(body) ==
    LET amount == IF SingleSidedForKind(body.kind) = "base"
                  THEN body.sizeBase ELSE body.sizeQuote
    IN ~amount.given \/ amount.text = "" \/ amount.text = "0"

\* Variant of the arm handler's second half that gives the cooldown back
\* when the request is rejected.
ArmIndexRefunding(i) ==
    /\ i \in DOMAIN svc.served
    /\ svc.served[i].pc = "index"
    /\ LET body == svc.served[i].body
       IN \E res \in PriceToBinIndex(gateway, body.pool, body.targetPrice) :
             LET sent == IF ~res.ok THEN <<StatusByError(res.error), res.error>>
                         ELSE IF ArmSizeMissing(body) THEN <<400, "InvalidInput">>
                         ELSE IF gateway = "mock" THEN <<200, "">>
                         ELSE <<501, "NotImplemented">>
             IN svc' = [svc EXCEPT !.served[i].pc = "done",
                                   !.served[i].body = <<>>,
                                   !.served[i].status = sent[1],
                                   !.served[i].code = sent[2],
                                   !.walletCooldown = IF sent[1] = 200 THEN @
                                                      ELSE Delete(@, body.wallet)]
    /\ UNCHANGED <<gwVars, planVars, advVars, btVars, csvVars, linkVars, botVars,
                   liq, rt>>

\* POST /orders/advanced/arm after its await: mapResult, the size check,
\* then the mock txid or 501.
ArmIndex(i) ==
    /\ i \in DOMAIN svc.served
    /\ svc.served[i].pc = "index"
    /\ LET body == svc.served[i].body
       IN \E res \in PriceToBinIndex(gateway, body.pool, body.targetPrice) :
             LET sent == IF ~res.ok THEN <<StatusByError(res.error), res.error>>
                         ELSE IF ArmSizeMissing(body) THEN <<400, "InvalidInput">>
                         ELSE IF gateway = "mock" THEN <<200, "">>
                         ELSE <<501, "NotImplemented">>
             IN svc' = [svc EXCEPT !.served[i].pc = "done",
                                   !.served[i].body = <<>>,
                                   !.served[i].status = sent[1],
                                   !.served[i].code = sent[2]]
    /\ UNCHANGED <<gwVars, planVars, advVars, btVars, csvVars, linkVars, botVars,
                   liq, rt>>

\* POST /orders/advanced/disarm: AdvancedDisarmReq is a wallet of at least
\* 32 characters and a pool.
AdvancedDisarm(body) ==
    /\ Len(svc.served) < MaxSvcRequests
    /\ svc' = SvcReceive("disarm", body, body.walletOk /\ body.pool # "", "done",
                         IF gateway = "mock" THEN 200 ELSE 501,
                         IF gateway = "mock" THEN "" ELSE "NotImplemented")
    /\ UNCHANGED <<gwVars, planVars, advVars, btVars, csvVars, linkVars, botVars,
                   liq, rt>>

\* A strategy service in mock or live mode that has received no request.
InitService ==
    /\ gateway \in {"mock", "live"}
    /\ ExecIdle
    /\ LiqIdle
    /\ RetryIdle
    /\ PlanIdle
    /\ AdvIdle
    /\ BtIdle
    /\ CsvIdle
    /\ LinksIdle
    /\ BotIdle

\* Bodies: one of two wallet keys, or for arm and disarm a wallet too short
\* for the schema; for arm a kind with the size it needs given, left out
\* or '0'.
NextService ==
    \/ SvcTick
    \/ \E wallet \in {MockWalletKey, UserWalletKey} :
          RebalanceExecute([wallet |-> wallet, walletOk |-> ValidPublicKey(wallet),
                            pool |-> "MOCK_POOL_SOL_USDC", bandBps |-> 100])
    \/ \E wallet \in {"short", UserWalletKey},
          spec \in {<<"limitBuy", Size("5"), NoSize>>, <<"limitBuy", NoSize, Size("5")>>,
                    <<"limitSell", NoSize, Size("0")>>} :
          ArmReceive([wallet |-> wallet, walletOk |-> Len(wallet) >= 32,
                      pool |-> "MOCK_POOL_SOL_USDC", kind |-> spec[1],
                      targetPrice |-> 1000000, sizeQuote |-> spec[2], sizeBase |-> spec[3]])
    \/ \E i \in 1..MaxSvcRequests : ArmIndex(i)
    \/ \E wallet \in {"short", UserWalletKey} :
          AdvancedDisarm([wallet |-> wallet, walletOk |-> Len(wallet) >= 32,
                          pool |-> "MOCK_POOL_SOL_USDC"])

SpecService == InitService /\ [][NextService]_vars

(***************************************************************************)
(* retry(fn, maxAttempts, baseDelay) of packages/core utils, one step per  *)
(* stretch of code between two awaits.                                     *)
(***************************************************************************)
\* What fn() settles to: a value, a rejection with an Error, or a rejection
\* with something that is not an Error.
FnOutcomes ==
    {[ok |-> TRUE, value |-> "v", isError |-> FALSE, message |-> ""]}
    \cup {[ok |-> FALSE, value |-> "", isError |-> b, message |-> m] :
              b \in BOOLEAN, m \in {"first", "second"}}

\* error instanceof Error ? error : new Error(String(error))
AsError(outcome) == [isError |-> TRUE, message |-> outcome.message]

\* Variant of the backoff that waits baseDelay every time.
BackoffFixed(baseDelay, attempt) == baseDelay

\* baseDelay * Math.pow(2, attempt - 1)
Backoff(baseDelay, attempt) == baseDelay * 2^(attempt - 1)

\* The loop head: attempt <= maxAttempts calls fn, otherwise the loop is
\* left and lastError is thrown.
RetryLoop(r, attempt) ==
    IF attempt <= r.maxAttempts
    THEN [r EXCEPT !.pc = "fn", !.attempt = attempt, !.calls = @ + 1]
    ELSE [r EXCEPT !.pc = "threw", !.attempt = attempt, !.thrown = r.lastError]

\* retry is invoked: lastError is preset and the loop starts at attempt 1.
RetryEnter ==
    /\ rt.pc = "invoked"
    /\ rt' = RetryLoop(rt, 1)
    /\ UNCHANGED <<gwVars, planVars, advVars, btVars, csvVars, linkVars, botVars,
                   liq, svc>>

\* await fn() settles: the value is returned, or the error is kept and the
\* loop either breaks (last attempt) or starts the backoff timer.
RetrySettle(outcome) ==
    /\ rt.pc = "fn"
    /\ rt' = IF outcome.ok
             THEN [rt EXCEPT !.pc = "returned", !.outcomes = Append(@, outcome),
                             !.returned = outcome.value]
             ELSE IF rt.attempt = rt.maxAttempts
             THEN [rt EXCEPT !.pc = "threw", !.outcomes = Append(@, outcome),
                             !.lastError = AsError(outcome),
                             !.thrown = AsError(outcome)]
             ELSE [rt EXCEPT !.pc = "timer", !.outcomes = Append(@, outcome),
                             !.lastError = AsError(outcome),
                             !.delays = Append(@, Backoff(rt.baseDelay, rt.attempt))]
    /\ UNCHANGED <<gwVars, planVars, advVars, btVars, csvVars, linkVars, botVars,
                   liq, svc>>

\* The backoff timer fires: attempt++ and back to the loop head.
RetryWake ==
    /\ rt.pc = "timer"
    /\ rt' = RetryLoop(rt, rt.attempt + 1)
    /\ UNCHANGED <<gwVars, planVars, advVars, btVars, csvVars, linkVars, botVars,
                   liq, svc>>

\* retry about to be invoked with maxAttempts in 0..MaxRetryAttempts and a
\* baseDelay of 0, 250 or 1000 ms (the default).
InitRetry ==
    /\ \E maxAttempts \in 0..MaxRetryAttempts, baseDelay \in {0, 250, 1000} :
          rt = [pc |-> "invoked", maxAttempts |-> maxAttempts, baseDelay |-> baseDelay,
                attempt |-> 0, calls |-> 0, outcomes |-> <<>>, delays |-> <<>>,
                lastError |-> [isError |-> TRUE, message |-> "Retry failed with no attempts"],
                returned |-> "", thrown |-> [isError |-> TRUE, message |-> ""]]
    /\ gateway = "mock"
    /\ LiqIdle
    /\ ExecIdle
    /\ PlanIdle
    /\ AdvIdle
    /\ BtIdle
    /\ CsvIdle
    /\ LinksIdle
    /\ BotIdle

NextRetry ==
    \/ RetryEnter
    \/ \E outcome \in FnOutcomes : RetrySettle(outcome)
    \/ RetryWake

SpecRetry == InitRetry /\ [][NextRetry]_vars

\* fn settles and the timer fires: the event loop runs whatever is due.
FairRetry == SpecRetry /\ WF_vars(NextRetry)

(***************************************************************************)
(* Properties of the planning routes.                                      *)
(***************************************************************************)
PlanOkReplies == {i \in DOMAIN planReplies : planReplies[i].kind = "ok"}

PlanFailedCalls == {i \in DOMAIN planCalls : ~planCalls[i].result.ok}

\* C1: for every accepted bandBps (1..10000), every positive mid price and
\* every price-to-bin mapping the gateway may implement, monotone or not, the
\* band that /rebalance/plan returns has binLower <= binUpper, and its two
\* edges are the two bins looked up for the lower and the upper price.
C1_BandOrdered ==
    \A i \in PlanOkReplies :
        /\ planReplies[i].target.binLower <= planReplies[i].target.binUpper
        /\ {planReplies[i].target.binLower, planReplies[i].target.binUpper}
              = {planLoc.lowerBin, planLoc.upperBin}

\* C1 witness: a plan answered under a mapping that inverts the order of the
\* band prices (the lower price got the larger bin).
C1_Witness ==
    /\ planPc = "done"
    /\ PlanOkReplies # {}
    /\ planReq.bandBps \in 1..10000
    /\ planLoc.midPrice > 0
    /\ planLoc.lowerBin > planLoc.upperBin

\* C2: /rebalance/plan reports inBand = TRUE exactly when
\* binLower <= currentBin <= binUpper, both ends included, where currentBin
\* is the bin the gateway returned for the mid price itself.
C2_InBandInclusive ==
    \A i \in PlanOkReplies :
        LET r == planReplies[i] IN
        /\ r.inBand <=> (r.current.binIndex \in r.target.binLower..r.target.binUpper)
        /\ planCalls[2].fn = "priceToBinIndex"
        /\ planCalls[2].arg = MidPrice8(r.current.midPrice)
        /\ r.current.binIndex = planCalls[2].result.value
        /\ r.current.midPrice = planCalls[1].result.value

\* C2 witness: the current bin sits exactly on the lower edge of a band wider
\* than one bin, and the plan reports it in band.
C2_Witness ==
    /\ planPc = "done"
    /\ PlanOkReplies # {}
    /\ planReplies[1].current.binIndex = planReplies[1].target.binLower
    /\ planReplies[1].target.binLower < planReplies[1].target.binUpper
    /\ planReplies[1].inBand

AdvOkReplies == {i \in DOMAIN advReplies : advReplies[i].kind = "ok"}

\* C3: for every order kind and every integer baseIndex the gateway may
\* return (zero and negative ones included), the bin list of the plan is
\* non-empty, free of duplicates, strictly ascending and holds only bins >= 0.
C3_BinsWellFormed ==
    \A i \in AdvOkReplies :
        LET bins == advReplies[i].bins IN
        /\ Len(bins) >= 1
        /\ Cardinality(SeqToSet(bins)) = Len(bins)
        /\ \A j \in 1..(Len(bins) - 1) : bins[j] < bins[j + 1]
        /\ \A j \in DOMAIN bins : bins[j] >= 0

\* C3 witness: a limitBuy plan whose three candidates base, base-1, base-2
\* all survive, so that the list had to be reordered.
C3_Witness ==
    /\ advPc = "done"
    /\ AdvOkReplies # {}
    /\ advReq.kind = "limitBuy"
    /\ Len(advReplies[1].bins) = 3

\* C4: the bin list is exactly the set of non-negative members of
\* {base, base+1, base+2} for limitSell and of {base, base-1, base-2} for
\* limitBuy and stopLoss; when no candidate is >= 0 it is the single bin
\* max(0, base).
C4_BinsExact ==
    \A i \in AdvOkReplies :
        LET bins  == advReplies[i].bins
            base  == advLoc.baseIndex
            cand  == IF advReq.kind = "limitSell"
                     THEN {base, base + 1, base + 2}
                     ELSE {base, base - 1, base - 2}
            valid == {b \in cand : b >= 0}
        IN IF valid = {}
           THEN bins = <<Max(0, base)>>
           ELSE SeqToSet(bins) = valid /\ Len(bins) = Cardinality(valid)

\* C4 witness: a stopLoss plan at base index 1, which keeps 0 and 1 and
\* drops -1.
C4_Witness ==
    /\ advPc = "done"
    /\ AdvOkReplies # {}
    /\ advReq.kind = "stopLoss"
    /\ advLoc.baseIndex = 1
    /\ advReplies[1].bins = <<0, 1>>

\* C5 as stated: when the price fetch or a priceToBinIndex call of a plan
\* fails, the plan fails with UpstreamUnavailable, carries the gateway's
\* failure unchanged and returns no band.
C5_FailsWithUpstreamUnavailable ==
    \A c \in PlanFailedCalls :
        /\ Len(planReplies) = 1
        /\ planReplies[1].kind = "problem"
        /\ planReplies[1].code = "UpstreamUnavailable"
        /\ planReplies[1].detail = planCalls[c].result.detail
        /\ "target" \notin DOMAIN planReplies[1]

\* C5 amended: when the price fetch or a priceToBinIndex call of a plan
\* fails, the plan ends with exactly one problem response whose code is the
\* gateway's own error tag, whose status is statusByError of that tag and
\* whose detail is the gateway's detail (left out when empty); the response
\* holds no band, no inBand and no current price, and the failed call is the
\* last gateway call of the request.
C5_GatewayFailureSurfaced ==
    \A c \in PlanFailedCalls :
        LET res == planCalls[c].result IN
        /\ c = Len(planCalls)
        /\ planPc = "done"
        /\ Len(planReplies) = 1
        /\ planReplies[1].kind = "problem"
        /\ planReplies[1].code = res.error
        /\ planReplies[1].code \in DomainErrors
        /\ planReplies[1].hasCode
        /\ planReplies[1].status = StatusByError(res.error)
        /\ planReplies[1].detail = res.detail
        /\ planReplies[1].hasDetail <=> (res.detail # "")
        /\ DOMAIN planReplies[1] \cap {"target", "inBand", "current"} = {}

\* C5 witness: the lookup of the upper band price, the last of the four
\* gateway calls, failed after the three before it succeeded.
C5_Witness ==
    /\ planPc = "done"
    /\ Len(planCalls) = 4
    /\ ~planCalls[4].result.ok
    /\ planReplies[1].kind = "problem"

\* C16: one /rebalance/plan request calls currentMidPrice at most once and
\* first, then priceToBinIndex at most three times, for the mid, the lower
\* and the upper price in that order; a failed call is the last call of the
\* request; the request is answered exactly once, when it ends.  One
\* /orders/advanced/plan request calls priceToBinIndex at most once, for the
\* target price, and is answered exactly once.
C16_NoRetry ==
    /\ Len(planCalls) <= 4
    /\ \A i \in DOMAIN planCalls :
          /\ planCalls[i].fn = IF i = 1 THEN "currentMidPrice" ELSE "priceToBinIndex"
          /\ ~planCalls[i].result.ok => i = Len(planCalls)
          /\ i = 2 => planCalls[i].arg = planCalls[1].result.value * BpsDenominator
          /\ i = 3 => planCalls[i].arg =
                          planCalls[1].result.value * (BpsDenominator - planReq.bandBps)
          /\ i = 4 => planCalls[i].arg =
                          planCalls[1].result.value * (BpsDenominator + planReq.bandBps)
    /\ Len(planReplies) = IF planPc = "done" THEN 1 ELSE 0
    /\ Len(advCalls) <= 1
    /\ \A i \in DOMAIN advCalls :
          /\ advCalls[i].fn = "priceToBinIndex"
          /\ advCalls[i].arg = advReq.targetPrice
    /\ Len(advReplies) = IF advPc = "done" THEN 1 ELSE 0

\* C16 witness: the lookup of the lower band price failed; it was the third
\* and last gateway call and the request got its one answer.
C16_Witness ==
    /\ planPc = "done"
    /\ Len(planCalls) = 3
    /\ planCalls[2].result.ok
    /\ ~planCalls[3].result.ok
    /\ Len(planReplies) = 1
    /\ planReplies[1].kind = "problem"

\* C17: a spec that /orders/advanced/plan accepts carries the size its kind
\* requires (sizeBase for limitSell and stopLoss, sizeQuote for limitBuy);
\* a spec without it is refused, as 400 InvalidInput unless the gateway
\* failed first.
C17_SizeInvariant ==
    advPc = "done" =>
        LET sized == IF advReq.kind = "limitBuy"
                     THEN advReq.sizeQuote.given
                     ELSE advReq.sizeBase.given
        IN sized \/
           /\ advReplies[1].kind = "problem"
           /\ (\A i \in DOMAIN advCalls : advCalls[i].result.ok) =>
                 /\ advReplies[1].status = 400
                 /\ advReplies[1].code = "InvalidInput"

\* The bins the gateway answered for the mid, the lower and the upper price
\* follow the order of those prices.
MonotoneLookups ==
    \A a \in 2..4, b \in 2..4 :
        planCalls[a].arg <= planCalls[b].arg
            => planCalls[a].result.value <= planCalls[b].result.value

\* C24: a /rebalance/plan that succeeds under a price-to-bin mapping that
\* is monotone non-decreasing (the gateway's own round(price * 100), or any
\* answers in the order of the prices asked) reports inBand = TRUE.
C24_InBandUnderMonotone ==
    \A i \in PlanOkReplies :
        (gateway \in {"mock", "live"} \/ MonotoneLookups) => planReplies[i].inBand

\* C24 witness: a plan answered by the live gateway whose current bin lies
\* strictly inside a band of several bins.
C24_Witness ==
    /\ planPc = "done"
    /\ gateway = "live"
    /\ PlanOkReplies = {1}
    /\ planReplies[1].inBand
    /\ planReplies[1].target.binLower < planReplies[1].current.binIndex
    /\ planReplies[1].current.binIndex < planReplies[1].target.binUpper

\* C25: with the gateway's own priceToBinIndex, a plan whose mid price and
\* current bin were found ends at the lower-band lookup with a 400
\* InvalidInput problem when bandBps = 10000 (the lower price is 0), and
\* for bandBps in 1..9999 that lookup is never refused as InvalidInput.
C25_FullBandRejected ==
    ( /\ gateway \in {"mock", "live"}
      /\ planPc = "done"
      /\ Len(planCalls) >= 3 )
    => IF planReq.bandBps = 10000
       THEN /\ Len(planCalls) = 3
            /\ planCalls[3].arg = 0
            /\ planCalls[3].result = MapValidationError
            /\ Len(planReplies) = 1
            /\ planReplies[1].kind = "problem"
            /\ planReplies[1].status = 400
            /\ planReplies[1].code = "InvalidInput"
            /\ planReplies[1].title = "Failed to compute lower band bin"
       ELSE /\ planReq.bandBps \in 1..9999
            /\ planCalls[3].arg > 0
            /\ planCalls[3].result.error # "InvalidInput"

\* C25 witness: a plan for bandBps = 10000 refused at the lower-band lookup
\* in mock mode.
C25_Witness ==
    /\ gateway = "mock"
    /\ planPc = "done"
    /\ planReq.bandBps = 10000
    /\ Len(planCalls) = 3
    /\ planReplies[1].status = 400

(***************************************************************************)
(* Properties of the backtest.                                             *)
(***************************************************************************)
bt == run[1]

\* The step that runs one loop iteration of invocation 1, on the candle BtRow.
BtStepped == bt.pc = "loop" /\ bt'.pc = "loop" /\ bt'.idx = bt.idx + 1
BtRow     == rows[bt.idx]

\* row breaches the band centred on price centre: high strictly above
\* centre * (1 + ratio) or low strictly below centre * (1 - ratio).
Breaches(row, centre, bandBps) ==
    \/ row.h.v * BpsDenominator > centre * (BpsDenominator + bandBps)
    \/ row.l.v * BpsDenominator < centre * (BpsDenominator - bandBps)

\* The first two candles both breach the band around the first close and lie
\* less than the cooldown apart.
BreachingPair ==
    /\ Len(rows) >= 2
    /\ RowIsFinite(rows[1])
    /\ RowIsFinite(rows[2])
    /\ Breaches(rows[1], rows[1].c.v, bt.bandBps)
    /\ Breaches(rows[2], rows[1].c.v, bt.bandBps)
    /\ rows[2].t.v - rows[1].t.v < bt.cooldownSec * MsPerSec
    /\ rows[1].t.v - rows[2].t.v < bt.cooldownSec * MsPerSec

C6_ExitStep ==
    BtStepped =>
        /\ (bt'.exits # bt.exits) =>
              /\ RowIsFinite(BtRow)
              /\ \/ bt.lastExitTs = NegInf
                 \/ /\ IsFinite(bt.lastExitTs)
                    /\ BtRow.t.v >= bt.lastExitTs.v + bt.cooldownSec * MsPerSec
        /\ (bt.exits = 0) => (bt.lastExitTs = NegInf)
        /\ ( /\ bt.exits = 0
             /\ RowIsFinite(BtRow)
             /\ IsFinite(bt.band.upper)
             /\ \/ BtRow.h.v * BpsDenominator > bt.band.upper.v
                \/ BtRow.l.v * BpsDenominator < bt.band.lower.v )
           => bt'.exits = 1

C6_PairExitsOnce ==
    (bt.pc = "loop" /\ bt.idx = 3 /\ BreachingPair) => bt.exits = 1

\* C6: an exit is recorded at a candle only if candle.t >= lastExitTimestamp
\* + cooldownSec * 1000; lastExitTimestamp starts at -Infinity, so the first
\* breaching candle always exits; and two breaching candles at the head of
\* the list that are less than cooldownSec apart produce exactly one exit.
C6_Cooldown == [][C6_ExitStep]_vars /\ []C6_PairExitsOnce

\* C6 witness: the first two candles both breached, less than the cooldown
\* apart, and exactly one exit was recorded.
C6_Witness ==
    /\ bt.pc = "loop"
    /\ bt.idx = 3
    /\ BreachingPair
    /\ bt.exits = 1
    /\ bt.lastExitTs = rows[1].t

\* (1 + FEE_PER_EXIT)^n in units of 1e-9 by the binomial theorem:
\* 1 + n f + C(n,2) f^2 + C(n,3) f^3, f = 0.0002; the terms from f^4 on are
\* below 1e-14 each.
PowFee(n) ==
    LET f1 == (EquityOne \div BpsDenominator) * FEE_PER_EXIT
        f2 == (f1 * FEE_PER_EXIT) \div BpsDenominator
        c2 == (n * (n - 1)) \div 2
        c3 == (n * (n - 1) * (n - 2)) \div 6
    IN EquityOne + n * f1 + c2 * f2
         + (c3 * f2 * FEE_PER_EXIT + BpsDenominator \div 2) \div BpsDenominator

\* C7: every exit multiplies equity by 1 + FEE_PER_EXIT and nothing else
\* changes it: at every point of a run equity = (1 + FEE_PER_EXIT)^exits, and
\* the returned finalEquity is that power rounded to 6 decimals, the
\* returned totalFeesPct its excess over 1 in percent rounded to 4.
C7_FeeCompounding ==
    /\ bt.pc \in {"loop", "done"} => bt.equity = PowFee(bt.exits)
    /\ bt.pc = "done" =>
          /\ bt.result.exits = bt.exits
          /\ bt.result.finalEquity = (PowFee(bt.exits) + 500) \div 1000
          /\ bt.result.totalFeesPct = (PowFee(bt.exits) - EquityOne + 500) \div 1000

\* C7 witness: a finished run with three exits, where compounding shows in
\* the ninth decimal.
C7_Witness ==
    /\ bt.pc = "done"
    /\ bt.result.exits = 3
    /\ bt.equity = 1000600120

\* C8: at a finite candle, if canExit and (high > band.upper or low <
\* band.lower, both strict) then exits grows by exactly 1, lastExitTimestamp
\* becomes candle.t and the band is re-centred on candle.c; otherwise exits,
\* lastExitTimestamp, equity and band all stay as they were.
C8_StepEffect ==
    (BtStepped /\ RowIsFinite(BtRow)) =>
        LET canExit == \/ bt.lastExitTs = NegInf
                       \/ /\ IsFinite(bt.lastExitTs)
                          /\ BtRow.t.v >= bt.lastExitTs.v + bt.cooldownSec * MsPerSec
            hit     == /\ IsFinite(bt.band.upper)
                       /\ IsFinite(bt.band.lower)
                       /\ \/ BtRow.h.v * BpsDenominator > bt.band.upper.v
                          \/ BtRow.l.v * BpsDenominator < bt.band.lower.v
        IN IF canExit /\ hit
           THEN /\ bt'.exits = bt.exits + 1
                /\ bt'.lastExitTs = BtRow.t
                /\ bt'.band.lower = Fin(BtRow.c.v * (BpsDenominator - bt.bandBps))
                /\ bt'.band.upper = Fin(BtRow.c.v * (BpsDenominator + bt.bandBps))
           ELSE /\ bt'.exits = bt.exits
                /\ bt'.lastExitTs = bt.lastExitTs
                /\ bt'.equity = bt.equity
                /\ bt'.band = bt.band

\* C8, over every step of a run.
C8_FrameEffect == [][C8_StepEffect]_vars

\* C8 witness: the second candle's high equalled band.upper with no cooldown
\* in the way, and no exit was taken.
C8_Witness ==
    /\ bt.pc = "loop"
    /\ bt.idx = 3
    /\ RowIsFinite(rows[1])
    /\ RowIsFinite(rows[2])
    /\ bt.exits = 0
    /\ bt.lastExitTs = NegInf
    /\ rows[2].h.v * BpsDenominator = bt.band.upper.v
    /\ Len(bt.equitySeries) = 2

\* No finite candle of the list is strictly outside the band around the
\* first close (a first close that is NaN gives a band nothing can breach).
NoBreach ==
    \A i \in DOMAIN rows :
        (RowIsFinite(rows[i]) /\ IsFinite(rows[1].c))
            => ~Breaches(rows[i], rows[1].c.v, bt.bandBps)

\* C9: a candle list in which no candle breaches the band gives exits = 0,
\* finalEquity = 1.0, totalFeesPct = 0 and an equity series whose every
\* point is 1.0.
C9_NoBreachNoExit ==
    (bt.pc = "done" /\ NoBreach) =>
        /\ bt.result.exits = 0
        /\ bt.result.finalEquity = 1000000
        /\ bt.result.totalFeesPct = 0
        /\ \A i \in DOMAIN bt.result.equitySeries :
              bt.result.equitySeries[i].equity = 1000000

\* C9 witness: a finished run over at least two flat candles at one price.
C9_Witness ==
    /\ bt.pc = "done"
    /\ Len(rows) >= 2
    /\ \A i \in DOMAIN rows :
          /\ RowIsFinite(rows[i])
          /\ rows[i].h = rows[1].c
          /\ rows[i].l = rows[1].c
          /\ rows[i].c = rows[1].c
    /\ NoBreach
    /\ Len(bt.result.equitySeries) = Len(rows)

AllFinite(row) == \A f \in {"t", "h", "l", "c"} : row[f].k = "fin"

\* The timestamps of the finite rows of s, in the order of s.
RECURSIVE FiniteTimes(_)
FiniteTimes(s) ==
    IF s = <<>> THEN <<>>
    ELSE IF AllFinite(Head(s)) THEN <<Head(s).t.v>> \o FiniteTimes(Tail(s))
    ELSE FiniteTimes(Tail(s))

C11_Step ==
    BtStepped =>
        IF AllFinite(BtRow)
        THEN bt'.equitySeries =
                 Append(bt.equitySeries,
                        [t |-> BtRow.t.v, equity |-> (bt'.equity + 500) \div 1000])
        ELSE bt' = [bt EXCEPT !.idx = bt.idx + 1]

C11_Series ==
    bt.pc \in {"loop", "done"} =>
        LET seen == SubSeq(rows, 1, bt.idx - 1) IN
        /\ Len(bt.equitySeries) = Cardinality({i \in DOMAIN seen : AllFinite(seen[i])})
        /\ [i \in DOMAIN bt.equitySeries |-> bt.equitySeries[i].t] = FiniteTimes(seen)
        /\ bt.pc = "done" => bt.result.equitySeries = bt.equitySeries

\* C11: a candle whose t, h, l or c is not finite changes nothing but the
\* loop position and adds no point; every other candle appends exactly one
\* point {t, equity rounded to 6 decimals}, exit or not, so the equity
\* series holds the timestamps of the finite candles in input order and is
\* as long as their number.
C11_SkipNonFinite == [][C11_Step]_vars /\ []C11_Series

\* C11 witness: a finished run over three candles whose second has a
\* non-finite high and whose third exits; the series has two points.
C11_Witness ==
    /\ bt.pc = "done"
    /\ Len(rows) = 3
    /\ AllFinite(rows[1])
    /\ rows[2].h = NaN
    /\ AllFinite(rows[3])
    /\ bt.result.exits = 1
    /\ Len(bt.result.equitySeries) = 2
    /\ bt.result.equitySeries[2].equity > bt.result.equitySeries[1].equity

C12_Step == BtStepped => bt'.equity >= bt.equity

C12_Floor ==
    /\ bt.pc \in {"loop", "done"} => bt.equity >= EquityOne
    /\ bt.pc = "done" =>
          /\ bt.equity > 0
          /\ bt.result.totalFeesPct = (bt.equity - EquityOne + 500) \div 1000
          /\ bt.result.totalFeesPct >= 0

\* C12: at every point of a run equity >= 1.0 and no candle lowers it, so
\* the terminal step never takes its equity <= 0 branch and
\* totalFeesPct = (equity - 1.0) * 100 >= 0.
C12_EquityNeverBelowOne == [][C12_Step]_vars /\ []C12_Floor

\* C12 witness: a finished run with two exits, whose fees are 0.04 percent.
C12_Witness ==
    /\ bt.pc = "done"
    /\ bt.result.exits = 2
    /\ bt.result.totalFeesPct = 400
    /\ bt.equity > EquityOne

C18_Step ==
    (BtStepped /\ RowIsFinite(BtRow)) =>
        LET expired == \/ bt.lastExitTs = NegInf
                       \/ /\ IsFinite(bt.lastExitTs)
                          /\ BtRow.t.v >= bt.lastExitTs.v + bt.cooldownSec * MsPerSec
            outside == /\ IsFinite(bt.band.upper)
                       /\ IsFinite(bt.band.lower)
                       /\ \/ BtRow.h.v * BpsDenominator > bt.band.upper.v
                          \/ BtRow.l.v * BpsDenominator < bt.band.lower.v
        IN (outside \/ expired) =>
              /\ bt'.band.lower = Fin(BtRow.c.v * (BpsDenominator - bt.bandBps))
              /\ bt'.band.upper = Fin(BtRow.c.v * (BpsDenominator + bt.bandBps))

\* C18: the simulator re-centres the band on the candle's close when the
\* price is outside the band or when the cooldown since the last exit has
\* expired.
C18_ResetOnExitOrCooldown == [][C18_Step]_vars

(***************************************************************************)
(* Properties of the CSV upload.                                           *)
(***************************************************************************)
csvData == csv.file.data

\* A field that holds a number: a finite number or a numeric string.
NumericCell(cell) ==
    \/ cell.k = "number" /\ cell.finite
    \/ cell.k = "string" /\ cell.s \in {"7", " 7 "}

CellValue(cell) == IF cell.k = "number" THEN cell.v ELSE Big(0, 7)

GoodCsvRow(row) ==
    /\ row.present
    /\ NumericCell(row.timestamp)
    /\ NumericCell(row.open)
    /\ NumericCell(row.high)
    /\ NumericCell(row.low)
    /\ NumericCell(row.close)

BadCsvRows == {i \in DOMAIN csvData : ~GoodCsvRow(csvData[i])}

FirstBadCsvRow == CHOOSE i \in BadCsvRows : \A j \in BadCsvRows : i <= j

\* candle is the candle of row: same prices, the row's timestamp as it is
\* or in milliseconds.
CandleOfRow(candle, row) ==
    /\ candle.o = CsvNum(CellValue(row.open))
    /\ candle.h = CsvNum(CellValue(row.high))
    /\ candle.l = CsvNum(CellValue(row.low))
    /\ candle.c = CsvNum(CellValue(row.close))
    /\ candle.t \in {CsvNum(CellValue(row.timestamp)),
                     CsvNum(Times1000(CellValue(row.timestamp)))}

CsvParsedFile ==
    /\ csv.file.outcome = "complete"
    /\ ~csv.file.errors
    /\ \A i \in DOMAIN REQUIRED_HEADERS : REQUIRED_HEADERS[i] \in csv.file.fields

C13_State ==
    /\ csv.pc = "rows" =>
          /\ Len(csv.parsed) = csv.index
          /\ \A i \in 1..csv.index :
                GoodCsvRow(csvData[i]) /\ CandleOfRow(csv.parsed[i], csvData[i])
    /\ csv.pc = "done" =>
          /\ \/ rows = <<>>
             \/ /\ Len(rows) = Len(csvData)
                /\ \A i \in DOMAIN rows :
                      GoodCsvRow(csvData[i]) /\ CandleOfRow(rows[i], csvData[i])
          /\ (CsvParsedFile /\ BadCsvRows # {}) =>
                /\ rows = <<>>
                /\ csv.index = FirstBadCsvRow - 1
                /\ Len(csv.parsed) = FirstBadCsvRow - 1
                /\ csv.toast.kind = "error"
                /\ csv.toast.row = FirstBadCsvRow + 1
                /\ csv.name = ""
          /\ (CsvParsedFile /\ BadCsvRows = {} /\ csvData # <<>>) =>
                /\ Len(rows) = Len(csvData)
                /\ csv.toast.kind = "success"

C13_Step == (csv.pc = "rows" /\ csv'.pc = "rows") => rows' = rows

MissingColumns ==
    {REQUIRED_HEADERS[i] : i \in DOMAIN REQUIRED_HEADERS} \ csv.file.fields

\* C14: a file whose header lacks a required column never reaches the row
\* loop: it ends with no candle built, the stored list empty and an error
\* that names the missing columns.
C14_HeaderCheckedFirst ==
    /\ csv.pc = "rows" => MissingColumns = {}
    /\ (csv.pc = "done" /\ csv.file.outcome = "complete" /\ MissingColumns # {}) =>
          /\ rows = <<>>
          /\ csv.parsed = <<>>
          /\ csv.index = 0
          /\ csv.name = ""
          /\ csv.toast.kind = "error"
          /\ csv.toast.row = 0
          /\ ~csv.file.errors =>
                /\ csv.toast.text = "missing columns"
                /\ SeqToSet(csv.toast.columns) = MissingColumns

\* C14 witness: a file of three rows without the close column was refused.
C14_Witness ==
    /\ csv.pc = "done"
    /\ ~csv.file.errors
    /\ MissingColumns = {"close"}
    /\ Len(csvData) = 3
    /\ csv.toast.columns = <<"close">>
    /\ rows = <<>>
    /\ csv.parsed = <<>>

\* C15: the timestamp of a stored candle is the row's timestamp times 1000
\* exactly when that is below 10^12, and the row's timestamp itself when it
\* is 10^12 or more.
C15_MillisBelowThreshold ==
    (csv.pc = "done" /\ csv.toast.kind = "success") =>
        \A i \in DOMAIN rows :
            LET raw == CellValue(csvData[i].timestamp)
            IN rows[i].t.v = IF raw.mega < 1000000 THEN Times1000(raw) ELSE raw

(***************************************************************************)
(* Properties of the bot.                                                  *)
(***************************************************************************)
\* C19: when the lookup says that no wallet is linked (404) and mock mode
\* is on, the command goes on with the configured DEFAULT_WALLET: the user
\* is warned first, then the command's plan request is sent for that
\* wallet.
C19_MockFallback ==
    ( /\ bot.pc \in {"warn", "plan", "execute", "done"}
      /\ bot.linked.status = 404
      /\ bot.env.MOCK_MODE )
    => /\ bot.source = "mock"
       /\ bot.wallet = bot.env.DEFAULT_WALLET
       /\ bot.pc \in {"execute", "done"} =>
             /\ bot.replies[1] = <<"No wallet linked; using mock wallet (development mode).">>
             /\ bot.calls[2].fn = "planRebalance"
             /\ bot.calls[2].wallet = bot.env.DEFAULT_WALLET

BotCallsOf(fn) == {i \in DOMAIN bot.calls : bot.calls[i].fn = fn}

\* C29: for /rebalance, /widen and /close an executeRebalance request is
\* sent only right after a planRebalance request for the same wallet and
\* bandBps (the pool of both is env.DEFAULT_POOL) that answered ok; when the
\* plan fails, no execute request is sent and the user is told "Failed: "
\* followed by the plan's problem.
C29_PlanBeforeExecute ==
    bot.pc \in {"plan", "execute", "done"} =>
        /\ \A i \in BotCallsOf("executeRebalance") :
              /\ i > 1
              /\ bot.calls[i - 1].fn = "planRebalance"
              /\ bot.calls[i - 1].result.ok
              /\ bot.calls[i - 1].wallet = bot.calls[i].wallet
              /\ bot.calls[i - 1].bps = bot.calls[i].bps
              /\ bot.command \in {"rebalance", "widen", "close"}
        /\ \A i \in BotCallsOf("planRebalance") :
              (bot.command # "status" /\ ~bot.calls[i].result.ok) =>
                  /\ BotCallsOf("executeRebalance") = {}
                  /\ i = Len(bot.calls)
                  /\ bot.pc = "done"
                  /\ bot.replies[Len(bot.replies)]
                        = <<"Failed">> \o FmtResult(bot.calls[i].result)

\* C29 witness: /widen whose plan failed ended with the plan's problem and
\* without an execute request.
C29_Witness ==
    /\ bot.pc = "done"
    /\ bot.command = "widen"
    /\ BotCallsOf("planRebalance") # {}
    /\ BotCallsOf("executeRebalance") = {}
    /\ bot.replies[Len(bot.replies)] = <<"Failed", "Failed to fetch mid price">>

(***************************************************************************)
(* Properties of wallet linking.                                           *)
(***************************************************************************)
\* What one /bot/consume-link request must do to the bindings: answered
\* 200, the user is bound to the wallet the code was created for, whatever
\* the user was bound to before, and nobody else's binding moves; answered
\* with a problem, no binding moves.
ConsumeBinds(code, telegramId) ==
    IF links'.last.reply.kind = "ok"
    THEN /\ Has(links.pendingByCode, code)
         /\ GetWallet(links', telegramId) = links.pendingByCode[code].wallet
         /\ links'.last.reply.wallet = links.pendingByCode[code].wallet
         /\ \A other \in TelegramIds \ {telegramId} :
                GetWallet(links', other) = GetWallet(links, other)
    ELSE \A user \in TelegramIds : GetWallet(links', user) = GetWallet(links, user)

\* A step that serves /bot/consume-link is the step of the request it
\* leaves in last.
C20_Step ==
    ConsumeLink(links'.last.code, links'.last.telegramId)
        => ConsumeBinds(links'.last.code, links'.last.telegramId)

\* GET /bot/wallet/:telegramId answers with what getWallet gives.
C20_Lookup ==
    links.last.route = "wallet" =>
        IF links.last.reply.kind = "ok"
        THEN links.last.reply.wallet = GetWallet(links, links.last.telegramId)
        ELSE links.last.telegramId <= 0 \/ GetWallet(links, links.last.telegramId) = ""

\* C20: after a successful consumeCode(code, telegramId), getWallet(telegramId)
\* is the wallet the code was created for, also when the user was bound to
\* another wallet before (the last successful link wins); a failed consume
\* (invalid or expired code) leaves every binding as it was.
C20_BindAndRebind == [][C20_Step]_vars /\ []C20_Lookup

\* A user bound to one wallet has just consumed a code created for another
\* wallet and is now bound to that one.
C20_Witness ==
    /\ links.last.route = "consume-link"
    /\ links.last.reply.kind = "ok"
    /\ links.last.previous # ""
    /\ links.last.previous # links.last.reply.wallet
    /\ GetWallet(links, links.last.telegramId) = links.last.reply.wallet

\* What one well-formed /bot/consume-link request must do to a code: a
\* pending code is removed; it binds when its age is at most its ttl and is
\* answered as expired, with the bindings as they were, when it is older; a
\* code that is not pending is answered as invalid and changes nothing but
\* the record of the request.
ConsumeOnce(code) ==
    LET reply == links'.last.reply IN
    IF Has(links.pendingByCode, code)
    THEN LET age == links.now - links.pendingByCode[code].createdAt IN
         /\ ~Has(links'.pendingByCode, code)
         /\ links.pendingByCode[code].ttlMs = DefaultTtlMs
         /\ IF age > DefaultTtlMs
            THEN /\ reply.kind = "problem"
                 /\ reply.detail = "Link code expired"
                 /\ links'.walletByTelegram = links.walletByTelegram
            ELSE /\ reply.kind = "ok"
                 /\ reply.wallet = links.pendingByCode[code].wallet
    ELSE /\ reply.kind = "problem"
         /\ reply.detail = "Invalid link code"
         /\ links' = [links EXCEPT !.last = links'.last]

C28_Step ==
    ( /\ ConsumeLink(links'.last.code, links'.last.telegramId)
      /\ ValidLinkCode(links'.last.code)
      /\ links'.last.telegramId > 0 )
    => ConsumeOnce(links'.last.code)

\* C28: a link code is single-use and time-limited: consuming a pending
\* code removes it, so that another consume of it is answered as invalid;
\* it binds when its age is at most ttlMs (10 minutes; age = ttlMs is still
\* valid) and is answered as expired, binding nothing, when it is older.
C28_SingleUse == [][C28_Step]_vars

\* C28 witness: a code created at time 0 was consumed with success at
\* exactly 10 minutes (the wallet's link cooldown still dates from time 0).
C28_Witness ==
    /\ links.now = DefaultTtlMs
    /\ links.last.route = "consume-link"
    /\ links.last.reply.kind = "ok"
    /\ Has(links.linkCooldownByWallet, links.last.reply.wallet)
    /\ links.linkCooldownByWallet[links.last.reply.wallet] = linkRateLimitMs

\* What createCode must do when generateCode draws Draws(c, d): the code
\* returned is one of them and resolves to the new wallet, every other
\* pending entry stays, and a pending entry is overwritten only by the last
\* candidate after all candidates collided, the number of entries staying
\* the same.
CreateKeeps(c, d) ==
    LET code   == links'.last.reply.code
        wallet == IF links'.last.wallet = "WALLET_MOCK"
                  THEN MockWalletKey ELSE links'.last.wallet
        before == links.pendingByCode
        after  == links'.pendingByCode
    IN /\ code \in {c, d}
       /\ DOMAIN after = DOMAIN before \cup {code}
       /\ after[code] = [wallet |-> wallet, createdAt |-> links.now,
                         ttlMs |-> DefaultTtlMs]
       /\ \A k \in DOMAIN before \ {code} : after[k] = before[k]
       /\ IF {c, d} \subseteq DOMAIN before
          THEN /\ code = d
               /\ Cardinality(DOMAIN after) = Cardinality(DOMAIN before)
          ELSE ~Has(before, code)

C30_Step ==
    ( /\ links'.last.route = "link-code"
      /\ links'.last.reply.kind = "ok"
      /\ links'.ticks = links.ticks )
    => \A c \in Codes, d \in Codes :
          links' = LinkIssued(links'.last.wallet,
                              IF links'.last.wallet = "WALLET_MOCK"
                              THEN MockWalletKey ELSE links'.last.wallet,
                              Draws(c, d))
              => CreateKeeps(c, d)

\* C30: createCode draws at most 6 candidates (5 redraws); when the last
\* one still collides it overwrites that pending entry, which then resolves
\* to the newer wallet, and the number of pending entries does not grow;
\* when a candidate is free, the pending entries are left as they were.
C30_Collision == [][C30_Step]_vars

\* C30 witness: at 10 minutes both codes resolve to the user's wallet although
\* the mock wallet was issued a code at time 0 that nobody consumed and
\* that cannot have expired: its entry was overwritten.
C30_Witness ==
    /\ links.now = DefaultTtlMs
    /\ links.walletByTelegram = <<>>
    /\ DOMAIN links.pendingByCode = Codes
    /\ \A k \in Codes : links.pendingByCode[k].wallet = UserWalletKey
    /\ Has(links.linkCooldownByWallet, MockWalletKey)
    /\ links.last.route = "link-code"
    /\ links.last.reply.kind = "ok"

(***************************************************************************)
(* Properties of the gateway's liquidity calls.                            *)
(***************************************************************************)
LiqIssues(call) ==
    IF call.op = "addLiquidity" THEN AddLiquidityIssues(call.params)
    ELSE RemoveLiquidityIssues(call.params)

\* C21: in mock mode a valid addLiquidity / removeLiquidity call returns a
\* txid that starts with 'MOCK-'; the first call and any later call of the
\* same operation with the same validated parameters return the same txid,
\* whatever was called in between; and the SDK is never called.
C21_MockTxid ==
    (gateway = "mock" /\ liq.count >= 1) =>
        /\ liq.sdkCalls = 0
        /\ LiqIssues(liq.last) = {} =>
              /\ liq.last.result.ok
              /\ liq.last.result.txid[1] = "MOCK-"
        /\ ( /\ LiqIssues(liq.first) = {}
             /\ LiqIssues(liq.last) = {}
             /\ liq.first.op = liq.last.op
             /\ ValidationData(liq.first.params) = ValidationData(liq.last.params) )
           => liq.last.result.txid = liq.first.result.txid

\* Three calls served in mock mode; the first and the third are the same
\* valid removeLiquidity up to a key the schema strips, and both got a txid.
C21_Witness ==
    /\ gateway = "mock"
    /\ liq.count = 3
    /\ liq.first.op = "removeLiquidity"
    /\ liq.last.op = "removeLiquidity"
    /\ liq.first.result.ok
    /\ liq.last.result.ok
    /\ liq.first.params # liq.last.params
    /\ ValidationData(liq.first.params) = ValidationData(liq.last.params)

LiqInvalid(call) ==
    \/ call.params.pool = ""
    \/ call.params.binLower > call.params.binUpper
    \/ /\ call.op = "removeLiquidity"
       /\ (call.params.percent < 0 \/ call.params.percent > 100)

\* C22: in mock and in live mode, a liquidity call with binLower > binUpper,
\* an empty pool or (removeLiquidity) a percent outside [0, 100] returns
\* {ok: false, error: 'InvalidInput'} and no txid, and does not reach the SDK.
C22_ValidationFirst ==
    /\ (liq.count >= 1 /\ LiqInvalid(liq.last)) =>
          /\ ~liq.last.result.ok
          /\ liq.last.result.error = "InvalidInput"
          /\ liq.last.result.txid = <<>>
    /\ (liq.count = 1 /\ LiqInvalid(liq.last)) => liq.sdkCalls = 0

\* Mock mode answers InvalidInput to a removeLiquidity whose only fault is
\* percent = 101.
C22_Witness ==
    /\ gateway = "mock"
    /\ liq.count >= 1
    /\ liq.last.op = "removeLiquidity"
    /\ liq.last.params.percent = 101
    /\ liq.last.result.error = "InvalidInput"
    /\ liq.last.result.detail = {"percent"}

(***************************************************************************)
(* Properties of retry.                                                    *)
(***************************************************************************)
RetryFailures == {k \in DOMAIN rt.outcomes : ~rt.outcomes[k].ok}

RetrySafe ==
    \* fn is called at most maxAttempts times
    /\ rt.calls <= rt.maxAttempts
    /\ Len(rt.outcomes) <= rt.calls
    \* the first success is returned and fn is not called again
    /\ \A k \in DOMAIN rt.outcomes :
          rt.outcomes[k].ok => /\ k = Len(rt.outcomes)
                               /\ rt.calls = k
                               /\ rt.pc = "returned"
                               /\ rt.returned = rt.outcomes[k].value
    /\ rt.pc = "returned" => rt.outcomes[Len(rt.outcomes)].ok
    \* one wait after each failure but the maxAttempts-th, of baseDelay * 2^(k-1)
    /\ DOMAIN rt.delays = RetryFailures \ {rt.maxAttempts}
    /\ \A k \in DOMAIN rt.delays : rt.delays[k] = rt.baseDelay * 2^(k - 1)
    \* after maxAttempts failures the error of the last one is thrown
    /\ (rt.pc = "threw" /\ rt.maxAttempts >= 1) =>
          /\ RetryFailures = 1..rt.maxAttempts
          /\ rt.calls = rt.maxAttempts
          /\ rt.thrown = AsError(rt.outcomes[rt.maxAttempts])
    /\ (rt.maxAttempts >= 1 /\ Cardinality(RetryFailures) = rt.maxAttempts) =>
          rt.pc = "threw"

PassedBefore(j) ==
    {i \in 1..(j - 1) : /\ svc.served[i].wallet = svc.served[j].wallet
                        /\ svc.served[i].passed
                        /\ svc.served[j].at < svc.served[i].at + walletCooldownMs}

\* C26: for every request to execute, arm or disarm whose body passes the
\* schema: if a request for the same wallet, to whichever of the three
\* routes, passed the cooldown check less than 15000 ms earlier, it is
\* answered 429 RateLimited; otherwise it passes, whatever was refused in
\* between.  So two requests for one wallet never both pass within 15000 ms.
C26_SharedCooldown ==
    /\ \A j \in DOMAIN svc.served :
          svc.served[j].valid =>
             IF PassedBefore(j) # {}
             THEN /\ ~svc.served[j].passed
                  /\ svc.served[j].status = 429
                  /\ svc.served[j].code = "RateLimited"
             ELSE svc.served[j].passed
    /\ \A i, j \in DOMAIN svc.served :
          ( /\ i < j
            /\ svc.served[i].wallet = svc.served[j].wallet
            /\ svc.served[i].passed
            /\ svc.served[j].passed )
          => svc.served[j].at >= svc.served[i].at + walletCooldownMs

\* execute passes at 0, disarm is refused at 14999 with a retry in 1 s, and
\* arm passes at 15000, all for one wallet.
C26_Witness ==
    /\ Len(svc.served) = 3
    /\ \A i \in 1..3 : svc.served[i].wallet = UserWalletKey
    /\ svc.served[1].route = "execute" /\ svc.served[1].passed /\ svc.served[1].at = 0
    /\ svc.served[2].route = "disarm" /\ svc.served[2].status = 429
    /\ svc.served[2].at = walletCooldownMs - 1 /\ svc.served[2].retryAfter = 1
    /\ svc.served[3].route = "arm" /\ svc.served[3].passed
    /\ svc.served[3].at = walletCooldownMs

\* C27: an arm request that passed the cooldown check holds the cooldown
\* while it waits for priceToBinIndex and after it was rejected (gateway
\* failure, 400 for the size, 501 in live mode): every later valid request
\* for that wallet checked less than 15000 ms after it is answered 429.
C27_ArmTakesCooldownFirst ==
    \A i \in DOMAIN svc.served :
       ( /\ svc.served[i].route = "arm"
         /\ svc.served[i].passed
         /\ (svc.served[i].pc = "index" \/ svc.served[i].status # 200) )
       => /\ Has(svc.walletCooldown, svc.served[i].wallet)
          /\ svc.walletCooldown[svc.served[i].wallet] >= svc.served[i].at + walletCooldownMs
          /\ \A j \in DOMAIN svc.served :
                ( /\ j > i
                  /\ svc.served[j].valid
                  /\ svc.served[j].wallet = svc.served[i].wallet
                  /\ svc.served[j].at < svc.served[i].at + walletCooldownMs )
                => /\ svc.served[j].status = 429
                   /\ svc.served[j].code = "RateLimited"
                   /\ ~svc.served[j].passed

\* An arm without the size its kind needs is answered 400 after it took the
\* cooldown, and the execute request that follows for the wallet gets 429.
C27_Witness ==
    /\ Len(svc.served) >= 2
    /\ svc.served[1].route = "arm"
    /\ svc.served[1].passed
    /\ svc.served[1].status = 400
    /\ svc.served[2].route = "execute"
    /\ svc.served[2].wallet = svc.served[1].wallet
    /\ svc.served[2].at > svc.served[1].at
    /\ svc.served[2].status = 429

====
